---- MODULE Spec2Model ----
(***************************************************************************)
(* A model of the incremental speech pipeline of lm-studio-tts.            *)
(*                                                                         *)
(* Part I  (Spec, SpecRun): tts_chat/audio.py, class AudioPlayer: the text *)
(*   request queue, the bounded audio queue, the generation worker, the    *)
(*   playback worker, speak_text and stop, one step per atomic operation   *)
(*   on the shared state (a queue operation, an Event read or write, the   *)
(*   locked section of the error slot).                                    *)
(* Part II (SpecStream): tts_chat/app.py, ChatApp.stream_response with the *)
(*   pure helpers leading_overlap and extract_speakable_segments.          *)
(***************************************************************************)
EXTENDS Integers, Sequences, FiniteSets, TLC

(***************************************************************************)
(* Bounds of the model                                                     *)
(***************************************************************************)
\* speak_text calls with speakable text made by the caller thread
MaxReq == 3

\* the buffers of earlier requests that wait in the audio queue when a burst
\* of requests begins
Backlog == 3

(***************************************************************************)
(* Program constants                                                       *)
(***************************************************************************)
\* queue.Queue(maxsize=4) of the audio buffers
PlayQueueMaxsize == 4

Reqs == 1..MaxReq
\* self._playback_sentinel: the one object in the audio queue that is no buffer
playback_sentinel == 0
\* self._first_error = None
NoError == <<>>

\* The elements of a sequence
Range(s) == {s[i] : i \in 1..Len(s)}

VARIABLES
  text_queue,    \* self._text_queue: requests (their numbers) not yet taken
  play_queue,    \* self._play_queue: buffers (numbered by request) and sentinels
  stop_flag,     \* self._stop_flag
  first_error,   \* self._first_error
  genPc,         \* the generation worker's position in _generator_loop
  genItem,       \* the request it holds (0: none)
  pbPc,          \* the playback worker's position in _playback_loop
  pbItem,        \* the item it holds (-1: none)
  sounding,      \* the buffers the audio device is playing now
  played,        \* the buffers handed to the audio device, in order
  callPc,        \* the caller thread's position in speak_text
  callText,      \* the text of its current or last call: "blank" or "text"
  callReq,       \* the number of the request it is enqueuing (0: none)
  raisedErr,     \* the exception its last call raised (NoError: none)
  nextReq,       \* the number of the next request
  stPc,          \* the stopping thread's position in stop()
  stopReturned,  \* a call of stop() has returned
  synth,         \* per request, what synthesis did: pending, audio, empty, raise
  pendingAtStop, \* the requests and buffers waiting in a queue when stop() was last called
  lateReqs       \* the requests put on the text queue after a stop() had returned

apVars == <<text_queue, play_queue, stop_flag, first_error, genPc, genItem,
            pbPc, pbItem, sounding, played, callPc, callText, callReq,
            raisedErr, nextReq, stPc, stopReturned, synth,
            pendingAtStop, lateReqs>>

VARIABLES
  messages,            \* self.messages: the conversation log, without the system entry
  continuation_target, \* self.continuation_target: index in messages of the entry (0: None)
  stop_event,          \* self.stop_event
  text_only,           \* self.text_only
  audio_disabled,      \* self.audio_disabled
  srPc,                \* self.streaming_thread and its position in stream_response
  continuation_entry,  \* local continuation_entry: index in messages (0: None)
  prefix,              \* local prefix
  assistant_chunks,    \* local assistant_chunks, joined: the accumulated reply buffer
  spoken_upto,         \* local spoken_upto: the speech cursor
  error_status,        \* local error_status ("None": None)
  chunk,               \* the chunk the stream client has yielded
  response,            \* stream_local_llm's local response: "none" before
                       \* requests.post has returned, then "open", "closed"
  spoken,              \* the texts passed to speak_text in this cycle, in order
  sent,                \* the reply text the server has sent in this cycle, each part once
  resent,              \* the server has sent some part of it again in this cycle
  displayed,           \* the texts of the assistant_chunk events put on self.queue
                       \* in this cycle, in order
  events,              \* the events for the display that stream_response has put
                       \* on self.queue in this cycle, in order, each <<kind, text>>
  stop_observed,       \* stream_local_llm or stream_response has read the flag set
                       \* in this cycle and left its loop
  notices,             \* the system_message events put on self.queue in this
                       \* cycle, in order, each by its tag
  fault                \* what has ended the stream of this cycle by an exception:
                       \* "request" (connect, timeout, HTTP status, broken body),
                       \* "client" (a data line that is no JSON), or "none"

appVars == <<messages, continuation_target, stop_event, text_only, audio_disabled>>
thVars == <<srPc, continuation_entry, prefix, assistant_chunks, spoken_upto,
            error_status, chunk, response>>
logVars == <<spoken, sent, resent, displayed, events, stop_observed, notices,
             fault>>

VARIABLES
  queue,         \* self.queue: the 'status' events, each by its text, and the
                 \* 'enable_input' events, in the order they were put
  status_var,    \* self.status_var: the text of the status line
  send_enabled   \* the state of self.send_button: tk.NORMAL (TRUE) or tk.DISABLED

uiVars == <<queue, status_var, send_enabled>>
srVars == <<appVars, thVars, logVars, uiVars>>

VARIABLES
  fnPc,        \* which function is applied ("overlap", "extract"), or "idle", "done"
  ovExisting,  \* leading_overlap: the argument existing
  ovNew,       \* leading_overlap: the argument new_text
  ovResult,    \* leading_overlap(existing, new_text)
  ovAppended,  \* leading_overlap(existing, existing + new_text)
  ovEmpty,     \* leading_overlap(existing, "")
  exText,      \* extract_speakable_segments: the argument text
  exStart,     \* extract_speakable_segments: the argument start_index
  exResult,    \* extract_speakable_segments(text, start_index)
  exSpans,     \* the pieces of text its segments were stripped from
  exFed,       \* the number of characters of text that have arrived so far
  exCursor,    \* the last cursor returned on the text that has arrived
  exOut        \* the results on the arriving text, one after the other

ovVars == <<ovExisting, ovNew, ovResult, ovAppended, ovEmpty>>
exVars == <<exText, exStart, exResult, exSpans, exFed, exCursor, exOut>>
fnVars == <<fnPc, ovVars, exVars>>

VARIABLES
  platform,    \* sys.platform, by the branch _play_via_tempfile takes for it
  tfPc,        \* the position of the thread that plays in _play_via_tempfile
  file_path,   \* its local file_path: the number of the temporary file (0: none)
  tfPending,   \* an exception is on its way out of the try statement
  tmp_files,   \* the temporary files that exist on the disk
  tfNext       \* the number of the next temporary file

tfVars == <<platform, tfPc, file_path, tfPending, tmp_files, tfNext>>

vars == <<apVars, srVars, fnVars, tfVars>>

\* AudioPlayer.__init__: empty queues, flag clear, no error, both workers started
InitAudioPlayer ==
  /\ text_queue = <<>>
  /\ play_queue = <<>>
  /\ stop_flag = FALSE
  /\ first_error = NoError
  /\ genPc = "loop"
  /\ genItem = 0
  /\ pbPc = "loop"
  /\ pbItem = -1
  /\ sounding = {}
  /\ played = <<>>
  /\ callPc = "idle"
  /\ callText = "blank"
  /\ callReq = 0
  /\ raisedErr = NoError
  /\ nextReq = 1
  /\ stPc = "idle"
  /\ stopReturned = FALSE
  /\ synth = [r \in Reqs |-> "pending"]
  /\ pendingAtStop = {}
  /\ lateReqs = {}

\* _ready_status
ready_status(textOnly, audioDisabled) ==
  IF textOnly
    THEN IF audioDisabled THEN "Ready. (audio playback disabled)"
                          ELSE "Ready. (text only mode)"
    ELSE "Ready."

\* the texts _ready_status can return
ReadyTexts == {ready_status(t, a) : t, a \in BOOLEAN}

\* ChatApp.__init__: no message, no thread, flag clear; args.text_only is textOnly
InitChatApp(textOnly) ==
  /\ messages = <<>>
  /\ continuation_target = 0
  /\ stop_event = FALSE
  /\ text_only = textOnly
  /\ audio_disabled = textOnly
  /\ srPc = "idle"
  /\ continuation_entry = 0
  /\ prefix = <<>>
  /\ assistant_chunks = <<>>
  /\ spoken_upto = 0
  /\ error_status = "None"
  /\ chunk = <<>>
  /\ response = "none"
  /\ spoken = <<>>
  /\ sent = <<>>
  /\ resent = FALSE
  /\ displayed = <<>>
  /\ events = <<>>
  /\ stop_observed = FALSE
  /\ notices = <<>>
  /\ fault = "none"

\* ChatApp.__init__, the widgets: nothing queued, the status line reads the
\* ready text of the mode, the send button is enabled
InitWidgets(textOnly) ==
  /\ queue = <<>>
  /\ status_var = ready_status(textOnly, textOnly)
  /\ send_enabled = TRUE

\* no function is applied
InitFnIdle ==
  /\ fnPc = "idle"
  /\ ovExisting = <<>>
  /\ ovNew = <<>>
  /\ ovResult = 0
  /\ ovAppended = 0
  /\ ovEmpty = 0
  /\ exText = <<>>
  /\ exStart = 0
  /\ exResult = <<>>
  /\ exSpans = <<>>
  /\ exFed = 0
  /\ exCursor = 0
  /\ exOut = <<>>

\* no buffer is played through a temporary file; the program runs on p
InitTempfile(p) ==
  /\ platform = p
  /\ tfPc = "idle"
  /\ file_path = 0
  /\ tfPending = FALSE
  /\ tmp_files = {}
  /\ tfNext = 1

\* an AudioPlayer, next to a ChatApp that is started and left alone
Init ==
  /\ InitAudioPlayer /\ InitChatApp(FALSE) /\ InitWidgets(FALSE) /\ InitFnIdle
  /\ InitTempfile("linux")

(***************************************************************************)
(* The error slot                                                          *)
(***************************************************************************)
\* record_error without the test of the slot: the last error wins
record_error_overwrite(slot, exc) == exc

\* _record_error, the locked section: set the slot if it is empty
record_error(slot, exc) == IF slot = NoError THEN exc ELSE slot

genVars == <<genPc, genItem>>
pbVars == <<pbPc, pbItem>>
callVars == <<callPc, callText, callReq, raisedErr, nextReq>>
stVars == <<stPc, stopReturned, pendingAtStop>>

(***************************************************************************)
(* speak_text, on the caller's thread                                      *)
(***************************************************************************)
\* speak_text with the strip() test moved before _raise_if_error
SpeakTextCall_stripFirst(text) ==
  /\ callPc = "idle"
  /\ callText' = text
  /\ IF text = "blank"
       THEN /\ callPc' = "ignored"
            /\ raisedErr' = NoError
            /\ UNCHANGED <<callReq, nextReq>>
     ELSE IF first_error # NoError
       THEN /\ callPc' = "raised"
            /\ raisedErr' = first_error
            /\ UNCHANGED <<callReq, nextReq>>
     ELSE /\ nextReq <= MaxReq
          /\ callPc' = "enq"
          /\ callReq' = nextReq
          /\ nextReq' = nextReq + 1
          /\ raisedErr' = NoError
  /\ UNCHANGED srVars
  /\ UNCHANGED <<fnVars, tfVars>>
  /\ UNCHANGED <<text_queue, play_queue, stop_flag, first_error, genVars, pbVars,
                 sounding, played, stVars, synth, lateReqs>>

\* _raise_if_error, then the strip() test: raise, return, or go on to enqueue
SpeakTextCall(text) ==
  /\ callPc = "idle"
  /\ callText' = text
  /\ IF first_error # NoError
       THEN /\ callPc' = "raised"
            /\ raisedErr' = first_error
            /\ UNCHANGED <<callReq, nextReq>>
     ELSE IF text = "blank"
       THEN /\ callPc' = "ignored"
            /\ raisedErr' = NoError
            /\ UNCHANGED <<callReq, nextReq>>
     ELSE /\ nextReq <= MaxReq
          /\ callPc' = "enq"
          /\ callReq' = nextReq
          /\ nextReq' = nextReq + 1
          /\ raisedErr' = NoError
  /\ UNCHANGED srVars
  /\ UNCHANGED <<fnVars, tfVars>>
  /\ UNCHANGED <<text_queue, play_queue, stop_flag, first_error, genVars, pbVars,
                 sounding, played, stVars, synth, lateReqs>>

\* SpeakTextPut that waits while the audio queue is full
SpeakTextPut_waitsForRoom ==
  /\ callPc = "enq"
  /\ Len(play_queue) < PlayQueueMaxsize
  /\ text_queue' = Append(text_queue, callReq)
  /\ lateReqs' = IF stopReturned THEN lateReqs \cup {callReq} ELSE lateReqs
  /\ callPc' = "enqueued"
  /\ callReq' = 0
  /\ UNCHANGED srVars
  /\ UNCHANGED <<fnVars, tfVars>>
  /\ UNCHANGED <<play_queue, stop_flag, first_error, genVars, pbVars, sounding,
                 played, callText, raisedErr, nextReq, stVars, synth>>

\* self._text_queue.put_nowait(...): the queue is unbounded, Full cannot happen
SpeakTextPut ==
  /\ callPc = "enq"
  /\ text_queue' = Append(text_queue, callReq)
  /\ lateReqs' = IF stopReturned THEN lateReqs \cup {callReq} ELSE lateReqs
  /\ callPc' = "enqueued"
  /\ callReq' = 0
  /\ UNCHANGED srVars
  /\ UNCHANGED <<fnVars, tfVars>>
  /\ UNCHANGED <<play_queue, stop_flag, first_error, genVars, pbVars, sounding,
                 played, callText, raisedErr, nextReq, stVars, synth>>

\* the call has returned or raised; the caller goes on
SpeakTextReturn ==
  /\ callPc \in {"raised", "ignored", "enqueued"}
  /\ callPc' = "idle"
  /\ callText' = "blank"
  /\ raisedErr' = NoError
  /\ UNCHANGED srVars
  /\ UNCHANGED <<fnVars, tfVars>>
  /\ UNCHANGED <<text_queue, play_queue, stop_flag, first_error, genVars, pbVars,
                 sounding, played, callReq, nextReq, stVars, synth, lateReqs>>

(***************************************************************************)
(* _generator_loop, on the generation worker's thread                      *)
(***************************************************************************)
\* GenLoopCheck that does not read the stop flag: while True
GenLoopCheck_flagNotRead ==
  /\ genPc = "loop"
  /\ genPc' = "get"
  /\ UNCHANGED srVars
  /\ UNCHANGED <<fnVars, tfVars>>
  /\ UNCHANGED <<text_queue, play_queue, stop_flag, first_error, genItem, pbVars,
                 sounding, played, callVars, stVars, synth, lateReqs>>

\* while not self._stop_flag.is_set()
GenLoopCheck ==
  /\ genPc = "loop"
  /\ genPc' = IF stop_flag THEN "exit" ELSE "get"
  /\ UNCHANGED srVars
  /\ UNCHANGED <<fnVars, tfVars>>
  /\ UNCHANGED <<text_queue, play_queue, stop_flag, first_error, genItem, pbVars,
                 sounding, played, callVars, stVars, synth, lateReqs>>

\* GenGet taking the newest request instead of the oldest
GenGet_newest ==
  /\ genPc = "get"
  /\ text_queue # <<>>
  /\ genItem' = text_queue[Len(text_queue)]
  /\ text_queue' = SubSeq(text_queue, 1, Len(text_queue) - 1)
  /\ genPc' = "synth"
  /\ UNCHANGED srVars
  /\ UNCHANGED <<fnVars, tfVars>>
  /\ UNCHANGED <<play_queue, stop_flag, first_error, pbVars, sounding, played,
                 callVars, stVars, synth, lateReqs>>

\* item = self._text_queue.get(timeout=0.1): the oldest request
GenGet ==
  /\ genPc = "get"
  /\ text_queue # <<>>
  /\ genItem' = Head(text_queue)
  /\ text_queue' = Tail(text_queue)
  /\ genPc' = "synth"
  /\ UNCHANGED srVars
  /\ UNCHANGED <<fnVars, tfVars>>
  /\ UNCHANGED <<play_queue, stop_flag, first_error, pbVars, sounding, played,
                 callVars, stVars, synth, lateReqs>>

\* except queue.Empty: continue
GenGetEmpty ==
  /\ genPc = "get"
  /\ text_queue = <<>>
  /\ genPc' = "loop"
  /\ UNCHANGED srVars
  /\ UNCHANGED <<fnVars, tfVars>>
  /\ UNCHANGED <<text_queue, play_queue, stop_flag, first_error, genItem, pbVars,
                 sounding, played, callVars, stVars, synth, lateReqs>>

\* GenSynth without the try/except: an exception of the pipeline ends the thread
GenSynth_uncaught(outcome) ==
  /\ genPc = "synth"
  /\ synth' = [synth EXCEPT ![genItem] = outcome]
  /\ CASE outcome = "audio" ->
            /\ genPc' = "put"
            /\ UNCHANGED genItem
       [] outcome = "empty" ->
            /\ genPc' = "loop"
            /\ genItem' = 0
       [] outcome = "raise" ->
            /\ genPc' = "exit"
            /\ genItem' = 0
  /\ UNCHANGED srVars
  /\ UNCHANGED <<fnVars, tfVars>>
  /\ UNCHANGED <<text_queue, play_queue, stop_flag, first_error, pbVars, sounding,
                 played, callVars, stVars, lateReqs>>

\* GenSynth that puts the pieces it has when the pipeline raises
GenSynth_putsPartial(outcome) ==
  /\ genPc = "synth"
  /\ synth' = [synth EXCEPT ![genItem] = outcome]
  /\ CASE outcome = "audio" ->
            /\ genPc' = "put"
            /\ UNCHANGED <<genItem, first_error>>
       [] outcome = "empty" ->
            /\ genPc' = "loop"
            /\ genItem' = 0
            /\ UNCHANGED first_error
       [] outcome = "raise" ->
            /\ first_error' = record_error(first_error, <<"synth", genItem>>)
            /\ genPc' = "put"
            /\ UNCHANGED genItem
  /\ UNCHANGED srVars
  /\ UNCHANGED <<fnVars, tfVars>>
  /\ UNCHANGED <<text_queue, play_queue, stop_flag, pbVars, sounding, played,
                 callVars, stVars, lateReqs>>

\* The pipeline call and the loop over its pieces end, after any time, in one of:
\* pieces to merge ("audio"), no piece ("empty"), an exception at any piece ("raise")
GenSynth(outcome) ==
  /\ genPc = "synth"
  /\ synth' = [synth EXCEPT ![genItem] = outcome]
  /\ CASE outcome = "audio" ->
            /\ genPc' = "put"
            /\ UNCHANGED <<genItem, first_error>>
       [] outcome = "empty" ->
            /\ genPc' = "loop"
            /\ genItem' = 0
            /\ UNCHANGED first_error
       [] outcome = "raise" ->
            /\ first_error' = record_error(first_error, <<"synth", genItem>>)
            /\ genPc' = "loop"
            /\ genItem' = 0
  /\ UNCHANGED srVars
  /\ UNCHANGED <<fnVars, tfVars>>
  /\ UNCHANGED <<text_queue, play_queue, stop_flag, pbVars, sounding, played,
                 callVars, stVars, lateReqs>>

\* _put_play_item without the test of the stop flag
GenPutCheck_noFlagTest ==
  /\ genPc = "put"
  /\ genPc' = "putTry"
  /\ UNCHANGED srVars
  /\ UNCHANGED <<fnVars, tfVars>>
  /\ UNCHANGED <<text_queue, play_queue, stop_flag, first_error, genItem, pbVars,
                 sounding, played, callVars, stVars, synth, lateReqs>>

\* _put_play_item: while not self._stop_flag.is_set(); with the flag set the
\* merged buffer is dropped
GenPutCheck ==
  /\ genPc = "put"
  /\ IF stop_flag
       THEN genPc' = "loop" /\ genItem' = 0
       ELSE genPc' = "putTry" /\ UNCHANGED genItem
  /\ UNCHANGED srVars
  /\ UNCHANGED <<fnVars, tfVars>>
  /\ UNCHANGED <<text_queue, play_queue, stop_flag, first_error, pbVars, sounding,
                 played, callVars, stVars, synth, lateReqs>>

\* GenPut on an audio queue without maxsize: the put never raises queue.Full
GenPut_noMaxsize ==
  /\ genPc = "putTry"
  /\ IF TRUE
       THEN /\ play_queue' = Append(play_queue, genItem)
            /\ genPc' = "loop"
            /\ genItem' = 0
       ELSE /\ genPc' = "put"
            /\ UNCHANGED <<play_queue, genItem>>
  /\ UNCHANGED srVars
  /\ UNCHANGED <<fnVars, tfVars>>
  /\ UNCHANGED <<text_queue, stop_flag, first_error, pbVars, sounding, played,
                 callVars, stVars, synth, lateReqs>>

\* GenPut that gives the buffer up when the audio queue is full
GenPut_dropsWhenFull ==
  /\ genPc = "putTry"
  /\ play_queue' = IF Len(play_queue) < PlayQueueMaxsize
                     THEN Append(play_queue, genItem)
                     ELSE play_queue
  /\ genPc' = "loop"
  /\ genItem' = 0
  /\ UNCHANGED srVars
  /\ UNCHANGED <<fnVars, tfVars>>
  /\ UNCHANGED <<text_queue, stop_flag, first_error, pbVars, sounding, played,
                 callVars, stVars, synth, lateReqs>>

\* _put_play_item: self._play_queue.put(audio_array, timeout=0.1) and return,
\* or except queue.Full: continue
GenPut ==
  /\ genPc = "putTry"
  /\ IF Len(play_queue) < PlayQueueMaxsize
       THEN /\ play_queue' = Append(play_queue, genItem)
            /\ genPc' = "loop"
            /\ genItem' = 0
       ELSE /\ genPc' = "put"
            /\ UNCHANGED <<play_queue, genItem>>
  /\ UNCHANGED srVars
  /\ UNCHANGED <<fnVars, tfVars>>
  /\ UNCHANGED <<text_queue, stop_flag, first_error, pbVars, sounding, played,
                 callVars, stVars, synth, lateReqs>>

Generator ==
  \/ GenLoopCheck
  \/ GenGet
  \/ GenGetEmpty
  \/ \E outcome \in {"audio", "empty", "raise"} : GenSynth(outcome)
  \/ GenPutCheck
  \/ GenPut

(***************************************************************************)
(* _playback_loop, on the playback worker's thread                         *)
(***************************************************************************)
\* while not self._stop_flag.is_set()
PbLoopCheck ==
  /\ pbPc = "loop"
  /\ pbPc' = IF stop_flag THEN "exit" ELSE "get"
  /\ UNCHANGED srVars
  /\ UNCHANGED <<fnVars, tfVars>>
  /\ UNCHANGED <<text_queue, play_queue, stop_flag, first_error, genVars, pbItem,
                 sounding, played, callVars, stVars, synth, lateReqs>>

\* item = self._play_queue.get(timeout=0.1): the oldest item
PbGet ==
  /\ pbPc = "get"
  /\ play_queue # <<>>
  /\ pbItem' = Head(play_queue)
  /\ play_queue' = Tail(play_queue)
  /\ pbPc' = "got"
  /\ UNCHANGED srVars
  /\ UNCHANGED <<fnVars, tfVars>>
  /\ UNCHANGED <<text_queue, stop_flag, first_error, genVars, sounding, played,
                 callVars, stVars, synth, lateReqs>>

\* except queue.Empty: continue
PbGetEmpty ==
  /\ pbPc = "get"
  /\ play_queue = <<>>
  /\ pbPc' = "loop"
  /\ UNCHANGED srVars
  /\ UNCHANGED <<fnVars, tfVars>>
  /\ UNCHANGED <<text_queue, play_queue, stop_flag, first_error, genVars, pbItem,
                 sounding, played, callVars, stVars, synth, lateReqs>>

\* _play_buffer that starts the buffer and returns without waiting for its end
PlayBufferStart_noWait ==
  /\ sounding' = sounding \cup {pbItem}
  /\ played' = Append(played, pbItem)
  /\ pbPc' = "loop"
  /\ pbItem' = -1

\* _play_buffer(item): the device starts the buffer and the worker waits for it
\* (sd.play and sd.wait, play_buffer and wait_done, subprocess.run)
PlayBufferStart ==
  /\ sounding' = sounding \cup {pbItem}
  /\ played' = Append(played, pbItem)
  /\ pbPc' = "playing"
  /\ UNCHANGED pbItem

\* if item is self._playback_sentinel: break; otherwise self._play_buffer(item)
PbDispatch ==
  /\ pbPc = "got"
  /\ IF pbItem = playback_sentinel
       THEN /\ pbPc' = "exit"
            /\ pbItem' = -1
            /\ UNCHANGED <<sounding, played>>
       ELSE PlayBufferStart
  /\ UNCHANGED srVars
  /\ UNCHANGED <<fnVars, tfVars>>
  /\ UNCHANGED <<text_queue, play_queue, stop_flag, first_error, genVars,
                 callVars, stVars, synth, lateReqs>>

\* PlayBufferEnd without the try/except: an exception of _play_buffer ends the
\* thread
PlayBufferEnd_uncaught(raises) ==
  /\ pbPc = "playing"
  /\ sounding' = sounding \ {pbItem}
  /\ pbPc' = IF raises THEN "exit" ELSE "loop"
  /\ pbItem' = -1
  /\ UNCHANGED srVars
  /\ UNCHANGED <<fnVars, tfVars>>
  /\ UNCHANGED <<text_queue, play_queue, stop_flag, first_error, genVars, played,
                 callVars, stVars, synth, lateReqs>>

\* _play_buffer returns when the buffer has finished, or raises; the worker
\* records the exception and goes on
PlayBufferEnd(raises) ==
  /\ pbPc = "playing"
  /\ sounding' = sounding \ {pbItem}
  /\ IF raises
       THEN first_error' = record_error(first_error, <<"play", pbItem>>)
       ELSE UNCHANGED first_error
  /\ pbPc' = "loop"
  /\ pbItem' = -1
  /\ UNCHANGED srVars
  /\ UNCHANGED <<fnVars, tfVars>>
  /\ UNCHANGED <<text_queue, play_queue, stop_flag, genVars, played, callVars,
                 stVars, synth, lateReqs>>

Playback ==
  \/ PbLoopCheck
  \/ PbGet
  \/ PbGetEmpty
  \/ PbDispatch
  \/ \E raises \in BOOLEAN : PlayBufferEnd(raises)

(***************************************************************************)
(* AudioPlayer.stop(), on the stopping thread                              *)
(***************************************************************************)
\* stop() is entered: sd.stop() silences the device when sounddevice is the
\* backend (sd is not None), and does not exist otherwise
StopCall ==
  /\ stPc = "idle"
  /\ \E sdPresent \in BOOLEAN : sounding' = IF sdPresent THEN {} ELSE sounding
  /\ pendingAtStop' = Range(text_queue) \cup (Range(play_queue) \ {playback_sentinel})
  /\ stPc' = "flushText"
  /\ UNCHANGED srVars
  /\ UNCHANGED <<fnVars, tfVars>>
  /\ UNCHANGED <<text_queue, play_queue, stop_flag, first_error, genVars, pbVars,
                 played, callVars, stopReturned, synth, lateReqs>>

\* _flush_queues, first loop: self._text_queue.get_nowait() until queue.Empty
StopFlushText ==
  /\ stPc = "flushText"
  /\ IF text_queue # <<>>
       THEN text_queue' = Tail(text_queue) /\ UNCHANGED stPc
       ELSE stPc' = "flushPlay" /\ UNCHANGED text_queue
  /\ UNCHANGED srVars
  /\ UNCHANGED <<fnVars, tfVars>>
  /\ UNCHANGED <<play_queue, stop_flag, first_error, genVars, pbVars, sounding,
                 played, callVars, stopReturned, pendingAtStop, synth,
                 lateReqs>>

\* _flush_queues, second loop: self._play_queue.get_nowait() until queue.Empty
StopFlushPlay ==
  /\ stPc = "flushPlay"
  /\ IF play_queue # <<>>
       THEN play_queue' = Tail(play_queue) /\ UNCHANGED stPc
       ELSE stPc' = "setFlag" /\ UNCHANGED play_queue
  /\ UNCHANGED srVars
  /\ UNCHANGED <<fnVars, tfVars>>
  /\ UNCHANGED <<text_queue, stop_flag, first_error, genVars, pbVars, sounding,
                 played, callVars, stopReturned, pendingAtStop, synth,
                 lateReqs>>

\* inst._stop_flag.set()
StopSetFlag ==
  /\ stPc = "setFlag"
  /\ stop_flag' = TRUE
  /\ stPc' = "sentinel"
  /\ UNCHANGED srVars
  /\ UNCHANGED <<fnVars, tfVars>>
  /\ UNCHANGED <<text_queue, play_queue, first_error, genVars, pbVars, sounding,
                 played, callVars, stopReturned, pendingAtStop, synth,
                 lateReqs>>

\* try: inst._play_queue.put_nowait(sentinel) / except Exception: pass; stop()
\* returns
StopPutSentinel ==
  /\ stPc = "sentinel"
  /\ play_queue' = IF Len(play_queue) < PlayQueueMaxsize
                     THEN Append(play_queue, playback_sentinel)
                     ELSE play_queue
  /\ stPc' = "idle"
  /\ stopReturned' = TRUE
  /\ UNCHANGED srVars
  /\ UNCHANGED <<fnVars, tfVars>>
  /\ UNCHANGED <<text_queue, stop_flag, first_error, genVars, pbVars, sounding,
                 played, callVars, pendingAtStop, synth, lateReqs>>

Stop ==
  \/ StopCall
  \/ StopFlushText
  \/ StopFlushPlay
  \/ StopSetFlag
  \/ StopPutSentinel

Caller ==
  \/ \E text \in {"blank", "text"} : SpeakTextCall(text)
  \/ SpeakTextPut
  \/ SpeakTextReturn

Next == Caller \/ Generator \/ Playback \/ Stop

Spec == Init /\ [][Next]_vars

\* the earlier requests of a backlog, numbered after the requests of the burst
BacklogReqs == [i \in 1..Backlog |-> MaxReq + i]

\* An AudioPlayer whose generation worker has synthesized Backlog requests and
\* put their buffers on the audio queue, and whose playback worker has not
\* taken one yet
InitBacklog ==
  /\ text_queue = <<>>
  /\ play_queue = BacklogReqs
  /\ stop_flag = FALSE
  /\ first_error = NoError
  /\ genPc = "loop"
  /\ genItem = 0
  /\ pbPc = "loop"
  /\ pbItem = -1
  /\ sounding = {}
  /\ played = <<>>
  /\ callPc = "idle"
  /\ callText = "blank"
  /\ callReq = 0
  /\ raisedErr = NoError
  /\ nextReq = 1
  /\ stPc = "idle"
  /\ stopReturned = FALSE
  /\ synth = [r \in Reqs |-> "pending"]
  /\ pendingAtStop = {}
  /\ lateReqs = {}

\* The pipeline while stop() is not called. Both workers are threads of their own
\* that the scheduler keeps running; nothing makes the caller call again.
NextRun == Caller \/ Generator \/ Playback

SpecRun == Init /\ [][NextRun]_vars /\ WF_vars(Generator) /\ WF_vars(Playback)

\* A burst of requests to a pipeline that has a backlog to play
InitBurst ==
  /\ InitBacklog /\ InitChatApp(FALSE) /\ InitWidgets(FALSE) /\ InitFnIdle
  /\ InitTempfile("linux")

SpecBurst == InitBurst /\ [][NextRun]_vars

\* A burst of requests to a pipeline that has a backlog to play, both workers
\* scheduled fairly and stop() not called
SpecBurstRun ==
  InitBurst /\ [][NextRun]_vars /\ WF_vars(Generator) /\ WF_vars(Playback)

\* stop() once entered: the thread that called it runs it to its end
StopRuns ==
  \/ StopFlushText
  \/ StopFlushPlay
  \/ StopSetFlag
  \/ StopPutSentinel

\* An AudioPlayer with a backlog on the audio queue whose caller has put two
\* requests on the text queue and makes no further call
InitPending ==
  /\ text_queue = <<1, 2>>
  /\ play_queue = BacklogReqs
  /\ stop_flag = FALSE
  /\ first_error = NoError
  /\ genPc = "loop"
  /\ genItem = 0
  /\ pbPc = "loop"
  /\ pbItem = -1
  /\ sounding = {}
  /\ played = <<>>
  /\ callPc = "idle"
  /\ callText = "blank"
  /\ callReq = 0
  /\ raisedErr = NoError
  /\ nextReq = 3
  /\ stPc = "idle"
  /\ stopReturned = FALSE
  /\ synth = [r \in Reqs |-> "pending"]
  /\ pendingAtStop = {}
  /\ lateReqs = {}

InitHalt ==
  /\ InitPending /\ InitChatApp(FALSE) /\ InitWidgets(FALSE) /\ InitFnIdle
  /\ InitTempfile("linux")

\* the workers and one call of stop(), made at any time
StopOnce == (StopCall /\ ~stopReturned) \/ StopRuns

NextHalt == Generator \/ Playback \/ StopOnce

\* All threads are scheduled fairly; a synthesis or playback call in progress
\* returns
SpecHalt ==
  /\ InitHalt
  /\ [][NextHalt]_vars
  /\ WF_vars(Generator)
  /\ WF_vars(Playback)
  /\ WF_vars(StopRuns)

(***************************************************************************)
(* _play_via_tempfile, the playback fallback without an audio library      *)
(***************************************************************************)
\* calls of _play_via_tempfile
MaxTempPlays == 3

\* sys.platform by the branch taken: 'darwin', startswith('linux'),
\* startswith('win'), anything else
Platforms == {"darwin", "linux", "win", "other"}

\* with tempfile.NamedTemporaryFile(suffix=".wav", delete=False) as tmp_file:
\* the file is created, or the call raises and there is no file
TempCreate(created) ==
  /\ tfPc = "idle"
  /\ tfNext <= MaxTempPlays
  /\ tfPending' = FALSE
  /\ IF created
       THEN /\ file_path' = tfNext
            /\ tmp_files' = tmp_files \cup {tfNext}
            /\ tfNext' = tfNext + 1
            /\ tfPc' = "write"
       ELSE /\ tfPc' = "raised"
            /\ UNCHANGED <<file_path, tmp_files, tfNext>>
  /\ UNCHANGED platform
  /\ UNCHANGED <<apVars, srVars, fnVars>>

\* sf.write(file_path, audio, SAMPLE_RATE) inside the with block, which closes
\* the file and, with delete=False, leaves it on the disk; an exception of
\* sf.write leaves the function from there, before the try statement
TempWrite(written) ==
  /\ tfPc = "write"
  /\ tfPc' = IF written THEN "choose" ELSE "raised"
  /\ UNCHANGED <<platform, file_path, tfPending, tmp_files, tfNext>>
  /\ UNCHANGED <<apVars, srVars, fnVars>>

\* try: the command for the platform, or raise RuntimeError (ChatClientError
\* in app.py) for a platform without one
TempChoose ==
  /\ tfPc = "choose"
  /\ IF platform = "other"
       THEN tfPc' = "remove" /\ tfPending' = TRUE
       ELSE tfPc' = "run" /\ UNCHANGED tfPending
  /\ UNCHANGED <<platform, file_path, tmp_files, tfNext>>
  /\ UNCHANGED <<apVars, srVars, fnVars>>

\* subprocess.run(cmd, check=True): the player ran, or the call raises (no such
\* program, exit status not 0)
TempRun(ran) ==
  /\ tfPc = "run"
  /\ tfPc' = "remove"
  /\ tfPending' = ~ran
  /\ UNCHANGED <<platform, file_path, tmp_files, tfNext>>
  /\ UNCHANGED <<apVars, srVars, fnVars>>

\* finally: try: os.remove(file_path) / except OSError: pass; then the function
\* returns, or the pending exception goes on
TempRemove(removed) ==
  /\ tfPc = "remove"
  /\ tmp_files' = IF removed THEN tmp_files \ {file_path} ELSE tmp_files
  /\ tfPc' = IF tfPending THEN "raised" ELSE "returned"
  /\ UNCHANGED <<platform, file_path, tfPending, tfNext>>
  /\ UNCHANGED <<apVars, srVars, fnVars>>

\* the call is over; its caller goes on
TempReturn ==
  /\ tfPc \in {"returned", "raised"}
  /\ tfPc' = "idle"
  /\ file_path' = 0
  /\ tfPending' = FALSE
  /\ UNCHANGED <<platform, tmp_files, tfNext>>
  /\ UNCHANGED <<apVars, srVars, fnVars>>

PlayViaTempfile ==
  \/ \E created \in BOOLEAN : TempCreate(created)
  \/ \E written \in BOOLEAN : TempWrite(written)
  \/ TempChoose
  \/ \E ran \in BOOLEAN : TempRun(ran)
  \/ \E removed \in BOOLEAN : TempRemove(removed)
  \/ TempReturn

\* the fallback on any platform, next to a pipeline that is left alone
InitTemp ==
  /\ InitAudioPlayer /\ InitChatApp(FALSE) /\ InitWidgets(FALSE) /\ InitFnIdle
  /\ \E p \in Platforms : InitTempfile(p)

SpecTemp == InitTemp /\ [][PlayViaTempfile]_vars

(***************************************************************************)
(* Claims about AudioPlayer                                                *)
(***************************************************************************)
\* C1: buffers are played in the order their requests were enqueued: in the
\* sequence of buffers handed to the device, request numbers only increase,
\* whatever time each synthesis took.
C1_PlayedInRequestOrder ==
  \A i, j \in 1..Len(played) : i < j => played[i] < played[j]

\* three requests, all with audio, played 1, 2, 3
C1_Witness == played = <<1, 2, 3>>

\* C2: at most one buffer sounds at any time, and only while the playback worker
\* is inside _play_buffer for that very buffer: it takes the next item only after
\* the buffer it plays has come to its end.
C2_OneBufferAtATime ==
  /\ Cardinality(sounding) <= 1
  /\ sounding # {} => (pbPc = "playing" /\ sounding = {pbItem})

\* buffer 2 sounds after buffer 1 was played
C2_Witness == sounding = {2} /\ played = <<1, 2>>

\* C3: with three requests enqueued and synthesis of the second raising, the
\* error is recorded, no buffer of a request whose synthesis raised is ever
\* played, the generation worker does not leave its loop, and every request on
\* the text queue is in the end synthesized and, when that gave audio, played;
\* buffers play in request order.
C3_FailureDoesNotHaltPipeline ==
  /\ [](\A r \in Reqs : synth[r] = "raise" =>
           (first_error # NoError /\ r \notin Range(played)))
  /\ [](genPc # "exit")
  /\ [](C1_PlayedInRequestOrder)
  /\ \A r \in Reqs :
       (r \in Range(text_queue)) ~>
         (synth[r] \in {"empty", "raise"} \/ r \in Range(played))

\* request 2 raised, was recorded, and requests 1 and 3 were played
C3_Witness ==
  /\ synth = [r \in Reqs |-> IF r = 2 THEN "raise" ELSE "audio"]
  /\ first_error = <<"synth", 2>>
  /\ played = <<1, 3>>

\* C4: a speak_text call that starts with the error slot set raises that error
\* at once and leaves the text queue as it was, whatever its text.
C4_SpeakFailsFastOnceDegraded ==
  [][(callPc = "idle" /\ callPc' # "idle" /\ first_error # NoError) =>
       (callPc' = "raised" /\ raisedErr' = first_error /\ text_queue' = text_queue)]_vars

\* a call with blank text has raised the captured error
C4_Witness ==
  callPc = "raised" /\ callText = "blank" /\ raisedErr = <<"synth", 1>>

\* C5: the error slot, once set, keeps its value in every later step.
C5_FirstErrorWins ==
  [][first_error # NoError => first_error' = first_error]_vars

\* a synthesis failure came after a playback failure, and the slot kept the first
C5_Witness ==
  \E r \in Reqs : synth[r] = "raise" /\ first_error = <<"play", 1>>

\* C6: once stop() has returned, no request or buffer that was waiting in a
\* queue when that stop() was called starts to play.
C6_StopDiscardsPending ==
  [][(stopReturned /\ stPc = "idle") =>
       (Range(played') \ Range(played)) \cap pendingAtStop = {}]_vars

\* C7: whenever a call of stop() has returned, the first or a later one, the
\* coordinator is Stopped: the stop flag is set, the text queue holds no request
\* from before the call and the audio queue holds no audio buffer (the sentinel
\* is no buffer).
C7_StopLeavesStopped ==
  (stopReturned /\ stPc = "idle") =>
    /\ stop_flag
    /\ Range(text_queue) \cap pendingAtStop = {}
    /\ Range(play_queue) \subseteq {playback_sentinel}

\* C8: Stopped is terminal: the stop flag, once set, stays set; a worker that
\* has left its loop stays out of it; and a request put on the text queue after
\* stop() has returned is never played.
C8_StoppedIsTerminal ==
  /\ [][stop_flag => stop_flag']_vars
  /\ [][(genPc = "exit" => genPc' = "exit") /\ (pbPc = "exit" => pbPc' = "exit")]_vars
  /\ [](stopReturned => stop_flag)
  /\ [](lateReqs \cap Range(played) = {})

\* after stop() had returned a request was enqueued, taken and synthesized by
\* the generation worker, its buffer dropped, and both workers have left their
\* loops
C8_Witness ==
  /\ stopReturned
  /\ \E r \in lateReqs : synth[r] = "audio"
  /\ genPc = "exit"
  /\ pbPc = "exit"

(***************************************************************************)
(* Part II: text.  A string is a sequence of characters, indexed from 1;   *)
(* the cursors of the program count from 0, as in the source.              *)
(***************************************************************************)
\* total length of the texts of one response cycle (prefix, buffer, sent text)
MaxLen == 3
\* entries of the conversation log
MaxMsgs == 2

\* the events that may wait in self.queue when a response cycle is started
MaxQueue == 3

\* The characters of the model: a letter, a sentence terminator, a blank, a newline
Chars == {"a", ".", " ", "\n"}

\* str.isspace() / str.strip() on the characters above
Whitespace == {" ", "\n", "\t", "\r"}
\* char in '.!?'
Terminators == {".", "!", "?"}
\* text[end] in '.:;!?)*"'
Closers == {".", ":", ";", "!", "?", ")", "*", "\""}

\* every string of at most n characters
Strings(n) == UNION {[1..k -> Chars] : k \in 0..n}

\* the strings, by the length that is left of MaxLen
StringsUpTo == [n \in 0..MaxLen |-> Strings(n)]

\* text[i:j] for 0 <= i <= j <= len(text)
Slice(text, i, j) == SubSeq(text, i + 1, j)

RECURSIVE lstrip(_)
lstrip(s) == IF s # <<>> /\ Head(s) \in Whitespace THEN lstrip(Tail(s)) ELSE s

RECURSIVE rstrip(_)
rstrip(s) ==
  IF s # <<>> /\ s[Len(s)] \in Whitespace THEN rstrip(SubSeq(s, 1, Len(s) - 1)) ELSE s

\* str.strip()
strip(s) == rstrip(lstrip(s))

\* the characters of s that are no whitespace, in order
RECURSIVE NonWhitespace(_)
NonWhitespace(s) ==
  IF s = <<>> THEN <<>>
  ELSE IF Head(s) \in Whitespace THEN NonWhitespace(Tail(s))
  ELSE <<Head(s)>> \o NonWhitespace(Tail(s))

\* ''.join(texts)
RECURSIVE Join(_)
Join(texts) == IF texts = <<>> THEN <<>> ELSE Head(texts) \o Join(Tail(texts))

Min(a, b) == IF a <= b THEN a ELSE b

\* the loop running upwards, range(1, max_overlap + 1): the smallest overlap
overlap_from_smallest(existing, new_text, size) ==
  LET sizes == {k \in 1..size :
                  Slice(existing, Len(existing) - k, Len(existing)) = Slice(new_text, 0, k)}
  IN  IF sizes = {} THEN 0 ELSE CHOOSE k \in sizes : \A j \in sizes : k <= j

\* for size in range(max_overlap, 0, -1): the first size whose suffix of existing
\* is a prefix of new_text; 0 when the loop ends
RECURSIVE overlap_from(_, _, _)
overlap_from(existing, new_text, size) ==
  IF size = 0 THEN 0
  ELSE IF Slice(existing, Len(existing) - size, Len(existing)) = Slice(new_text, 0, size)
    THEN size
  ELSE overlap_from(existing, new_text, size - 1)

\* leading_overlap whose loop starts one below the shorter length
leading_overlap_shortWindow(existing, new_text) ==
  overlap_from(existing, new_text, Min(Len(existing), Len(new_text)) - 1)

\* leading_overlap that finds no overlap: the chunk is appended as it came
leading_overlap_none(existing, new_text) == 0

\* leading_overlap / ChatApp._leading_overlap
leading_overlap(existing, new_text) ==
  overlap_from(existing, new_text, Min(Len(existing), Len(new_text)))

\* absorb without the loop: the boundary ends right after the terminator
absorb_nothing(text, end) == end

\* while end < length and (text[end].isspace() or text[end] in '.:;!?)*"'): end += 1
RECURSIVE absorb(_, _)
absorb(text, end) ==
  IF end < Len(text) /\ (text[end + 1] \in Whitespace \/ text[end + 1] \in Closers)
    THEN absorb(text, end + 1)
    ELSE end

\* append_segment without the test "if segment"
append_segment_always(segments, segment, cursor) == Append(segments, <<segment, cursor>>)

\* segments.append((segment, cursor)) under "if segment"
append_segment(segments, segment, cursor) ==
  IF segment # <<>> THEN Append(segments, <<segment, cursor>>) ELSE segments

\* scan that goes on one character after the boundary it has absorbed
RECURSIVE scan_skip(_, _, _, _)
scan_skip(text, start_index, idx, segments) ==
  IF idx >= Len(text) THEN segments
  ELSE IF text[idx + 1] \in Terminators
    THEN LET end == absorb(text, idx + 1)
             segment == strip(Slice(text, start_index, end))
         IN  scan_skip(text, end + 1, end + 1, append_segment(segments, segment, end))
  ELSE IF text[idx + 1] = "\n"
    THEN LET segment == strip(Slice(text, start_index, idx))
         IN  scan_skip(text, idx + 1, idx + 1, append_segment(segments, segment, idx + 1))
  ELSE scan_skip(text, start_index, idx + 1, segments)

\* scan that leaves start_index where it was after a newline
RECURSIVE scan_startNotMoved(_, _, _, _)
scan_startNotMoved(text, start_index, idx, segments) ==
  IF idx >= Len(text) THEN segments
  ELSE IF text[idx + 1] \in Terminators
    THEN LET end == absorb(text, idx + 1)
             segment == strip(Slice(text, start_index, end))
         IN  scan_startNotMoved(text, end, end, append_segment(segments, segment, end))
  ELSE IF text[idx + 1] = "\n"
    THEN LET segment == strip(Slice(text, start_index, idx))
         IN  scan_startNotMoved(text, start_index, idx + 1,
                                append_segment(segments, segment, idx + 1))
  ELSE scan_startNotMoved(text, start_index, idx + 1, segments)

\* the while loop of extract_speakable_segments, from idx with the segment start
\* at start_index
RECURSIVE scan(_, _, _, _)
scan(text, start_index, idx, segments) ==
  IF idx >= Len(text) THEN segments
  ELSE IF text[idx + 1] \in Terminators
    THEN LET end == absorb(text, idx + 1)
             segment == strip(Slice(text, start_index, end))
         IN  scan(text, end, end, append_segment(segments, segment, end))
  ELSE IF text[idx + 1] = "\n"
    THEN LET segment == strip(Slice(text, start_index, idx))
         IN  scan(text, idx + 1, idx + 1, append_segment(segments, segment, idx + 1))
  ELSE scan(text, start_index, idx + 1, segments)

\* extract_speakable_segments(text, start_index): pairs <<segment, new_index>>
extract_speakable_segments(text, start_index) ==
  scan(text, start_index, start_index, <<>>)

(***************************************************************************)
(* Part II: ChatApp, the UI thread                                         *)
(***************************************************************************)
\* self.streaming_thread and self.streaming_thread.is_alive()
ThreadAlive == srPc \notin {"idle", "dead"}

user_entry == [role |-> "user", content |-> <<"a">>]

\* OnSendCore without self.stop_event.clear()
OnSendCore_flagNotCleared ==
  /\ ~ThreadAlive
  /\ Len(messages) + 2 <= MaxMsgs
  /\ messages' = Append(messages, user_entry)
  /\ srPc' = "begin"
  /\ UNCHANGED <<continuation_target, stop_event, text_only, audio_disabled,
                 continuation_entry, prefix, assistant_chunks, spoken_upto,
                 error_status, chunk, logVars>>
  /\ UNCHANGED response
  /\ UNCHANGED apVars
  /\ UNCHANGED <<fnVars, tfVars>>

\* on_send with text in the entry box and no edit in progress, then
\* _enqueue_user_message; it returns at once while a thread is alive
OnSendCore ==
  /\ ~ThreadAlive
  /\ Len(messages) + 2 <= MaxMsgs
  /\ messages' = Append(messages, user_entry)
  /\ stop_event' = FALSE
  /\ srPc' = "begin"
  /\ UNCHANGED <<continuation_target, text_only, audio_disabled, continuation_entry,
                 prefix, assistant_chunks, spoken_upto, error_status, chunk, logVars>>
  /\ UNCHANGED response
  /\ UNCHANGED apVars
  /\ UNCHANGED <<fnVars, tfVars>>

\* OnSendCore, the event queue and the widgets left out of the picture
OnSend == OnSendCore /\ UNCHANGED uiVars

\* OnSendCore, and _enqueue_user_message disables the send button and sets the status line
OnSendUi ==
  /\ OnSendCore
  /\ Len(queue) <= MaxQueue
  /\ send_enabled' = FALSE
  /\ status_var' = "Awaiting response..."
  /\ UNCHANGED queue

\* ContinueCurrentMessageCore without the test of self.streaming_thread
ContinueCurrentMessageCore_threadNotChecked ==
  /\ messages # <<>>
  /\ messages[Len(messages)].role = "assistant"
  /\ continuation_target' = Len(messages)
  /\ stop_event' = FALSE
  /\ srPc' = "begin"
  /\ UNCHANGED <<messages, text_only, audio_disabled, continuation_entry, prefix,
                 assistant_chunks, spoken_upto, error_status, chunk, logVars>>
  /\ UNCHANGED response
  /\ UNCHANGED apVars
  /\ UNCHANGED <<fnVars, tfVars>>

\* _continue_current_message on the latest entry, an assistant message
ContinueCurrentMessageCore ==
  /\ ~ThreadAlive
  /\ messages # <<>>
  /\ messages[Len(messages)].role = "assistant"
  /\ continuation_target' = Len(messages)
  /\ stop_event' = FALSE
  /\ srPc' = "begin"
  /\ UNCHANGED <<messages, text_only, audio_disabled, continuation_entry, prefix,
                 assistant_chunks, spoken_upto, error_status, chunk, logVars>>
  /\ UNCHANGED response
  /\ UNCHANGED apVars
  /\ UNCHANGED <<fnVars, tfVars>>

\* ContinueCurrentMessageCore, the event queue and the widgets left out of the picture
ContinueCurrentMessage == ContinueCurrentMessageCore /\ UNCHANGED uiVars

\* ContinueCurrentMessageCore, and it disables the send button and sets the status line
ContinueCurrentMessageUi ==
  /\ ContinueCurrentMessageCore
  /\ Len(queue) <= MaxQueue
  /\ send_enabled' = FALSE
  /\ status_var' = "Continuing response..."
  /\ UNCHANGED queue

\* on_stop: sets the flag when a thread is alive and the flag is clear
OnStopCore ==
  /\ ThreadAlive
  /\ ~stop_event
  /\ stop_event' = TRUE
  /\ UNCHANGED <<messages, continuation_target, text_only, audio_disabled, thVars,
                 logVars>>
  /\ UNCHANGED apVars
  /\ UNCHANGED <<fnVars, tfVars>>

\* on_stop that also stops the player: the play queue emptied, its flag set
OnStop_stopsPlayer ==
  /\ ThreadAlive
  /\ ~stop_event
  /\ stop_event' = TRUE
  /\ play_queue' = <<>>
  /\ stop_flag' = TRUE
  /\ UNCHANGED <<messages, continuation_target, text_only, audio_disabled, thVars,
                 logVars>>
  /\ UNCHANGED uiVars
  /\ UNCHANGED <<text_queue, first_error, genPc, genItem, pbPc, pbItem, sounding,
                 played, callPc, callText, callReq, raisedErr, nextReq, stPc,
                 stopReturned, synth, pendingAtStop, lateReqs>>
  /\ UNCHANGED <<fnVars, tfVars>>

\* OnStopCore, the event queue and the widgets left out of the picture
OnStop == OnStopCore /\ UNCHANGED uiVars

\* OnStopCore, and it puts the status event
OnStopUi ==
  /\ OnStopCore
  /\ queue' = Append(queue, "Stopping response...")
  /\ UNCHANGED <<status_var, send_enabled>>

\* the texts of the 'status' events of q, in order
Statuses(q) == SelectSeq(q, LAMBDA event : event # "enable_input")

\* process_queue: takes the events off the queue until it is empty; a 'status'
\* event sets the status line, 'enable_input' makes the send button normal
ProcessQueue ==
  /\ queue # <<>>
  /\ status_var' = IF Statuses(queue) # <<>>
                     THEN Statuses(queue)[Len(Statuses(queue))] ELSE status_var
  /\ send_enabled' = (send_enabled \/ "enable_input" \in Range(queue))
  /\ queue' = <<>>
  /\ UNCHANGED <<appVars, thVars, logVars>>
  /\ UNCHANGED apVars
  /\ UNCHANGED <<fnVars, tfVars>>

(***************************************************************************)
(* Part II: stream_response, on the orchestrating thread                   *)
(***************************************************************************)
\* self.queue.put(('assistant_begin', continuation_entry)) and
\* self.queue.put(('streaming_state', True)); the text of the first is the
\* content of the entry that is continued, if any
begin_events(entry) ==
  << <<"assistant_begin", IF entry # 0 THEN messages[entry].content ELSE <<>> >>,
     <<"streaming_state_on", <<>> >> >>

\* end_events with enable_input put before assistant_finalize
end_events_inputFirst(buffer) ==
  << <<"enable_input", <<>> >>,
     <<"assistant_finalize", buffer>>,
     <<"streaming_state_off", <<>> >> >>

\* the finally clause: self.queue.put(('assistant_finalize', (''.join(
\* assistant_chunks), assistant_entry))), then ('enable_input', None) and
\* ('streaming_state', False)
end_events(buffer) ==
  << <<"assistant_finalize", buffer>>,
     <<"enable_input", <<>> >>,
     <<"streaming_state_off", <<>> >> >>

\* StreamBegin with the cursor at 0 also when a message is continued
StreamBegin_cursorAtZero(templateOk) ==
  /\ srPc = "begin"
  /\ continuation_entry' = continuation_target
  /\ continuation_target' = 0
  /\ prefix' = IF continuation_target # 0
                 THEN messages[continuation_target].content ELSE <<>>
  /\ assistant_chunks' = prefix'
  /\ spoken_upto' = 0
  /\ error_status' = "None"
  /\ chunk' = <<>>
  /\ spoken' = <<>>
  /\ sent' = <<>>
  /\ resent' = FALSE
  /\ displayed' = <<>>
  /\ events' = IF templateOk THEN begin_events(continuation_target) ELSE <<>>
  /\ stop_observed' = FALSE
  /\ notices' = <<>>
  /\ fault' = "none"
  /\ srPc' = IF templateOk THEN "recv" ELSE "dead"
  /\ UNCHANGED <<messages, stop_event, text_only, audio_disabled>>
  /\ response' = "none"
  /\ UNCHANGED uiVars
  /\ UNCHANGED apVars
  /\ UNCHANGED <<fnVars, tfVars>>

\* The locals are set; _build_prompt returns, or raises ChatClientError, which
\* is outside the try statement and ends the thread
StreamBegin(templateOk) ==
  /\ srPc = "begin"
  /\ continuation_entry' = continuation_target
  /\ continuation_target' = 0
  /\ prefix' = IF continuation_target # 0
                 THEN messages[continuation_target].content ELSE <<>>
  /\ assistant_chunks' = prefix'
  /\ spoken_upto' = Len(prefix')
  /\ error_status' = "None"
  /\ chunk' = <<>>
  /\ spoken' = <<>>
  /\ sent' = <<>>
  /\ resent' = FALSE
  /\ displayed' = <<>>
  /\ events' = IF templateOk THEN begin_events(continuation_target) ELSE <<>>
  /\ stop_observed' = FALSE
  /\ notices' = <<>>
  /\ fault' = "none"
  /\ srPc' = IF templateOk THEN "recv" ELSE "dead"
  /\ UNCHANGED <<messages, stop_event, text_only, audio_disabled>>
  /\ response' = "none"
  /\ UNCHANGED uiVars
  /\ UNCHANGED apVars
  /\ UNCHANGED <<fnVars, tfVars>>

\* stream_local_llm: a line arrives while the flag is set: break, the sequence ends
StreamRecvStopped ==
  /\ srPc = "recv"
  /\ stop_event
  /\ stop_observed' = TRUE
  /\ srPc' = "else"
  /\ UNCHANGED <<appVars, continuation_entry, prefix, assistant_chunks, spoken_upto,
                 error_status, chunk, spoken, sent, resent, displayed, events, notices, fault>>
  /\ response' = "closed"
  /\ UNCHANGED uiVars
  /\ UNCHANGED apVars
  /\ UNCHANGED <<fnVars, tfVars>>

\* The chunks of the end-to-end example: 'Hello wor', then 'world, friend.',
\* which sends 'wor' again and goes on with 'ld, friend.'
HelloWor ==
  <<"H", "e", "l", "l", "o", " ", "w", "o", "r">>

LdFriend ==
  <<"l", "d", ",", " ", "f", "r", "i", "e", "n", "d", ".">>

\* 'Hello world, friend.'
HelloWorldFriend == HelloWor \o LdFriend

\* the new reply texts a data line can carry: within the bound, or of the example
DeltasLeft ==
  (IF Len(sent) <= MaxLen THEN StringsUpTo[MaxLen - Len(sent)] ELSE {})
    \cup {HelloWor, LdFriend}

\* the sent text and the buffer stay within the bound
InBounds(d) ==
  /\ Len(sent) + Len(d) <= MaxLen
  /\ Len(assistant_chunks) + Len(d) <= MaxLen

\* StreamRecvDelta that parses the line without reading the flag
StreamRecvDelta_flagNotRead(d) ==
  /\ srPc = "recv"
  /\ d # <<>>
  /\ InBounds(d) \/ (sent = <<>> /\ assistant_chunks = <<>> /\ d = HelloWor)
  /\ chunk' = d
  /\ sent' = sent \o d
  /\ srPc' = "chunk"
  /\ UNCHANGED <<appVars, continuation_entry, prefix, assistant_chunks, spoken_upto,
                 error_status, spoken, resent, displayed, events, stop_observed, notices, fault>>
  /\ response' = "open"
  /\ UNCHANGED uiVars
  /\ UNCHANGED apVars
  /\ UNCHANGED <<fnVars, tfVars>>

\* stream_local_llm: a data line with new reply text d is parsed and yielded
StreamRecvDelta(d) ==
  /\ srPc = "recv"
  /\ ~stop_event
  /\ d # <<>>
  /\ InBounds(d) \/ (sent = <<>> /\ assistant_chunks = <<>> /\ d = HelloWor)
  /\ chunk' = d
  /\ sent' = sent \o d
  /\ srPc' = "chunk"
  /\ UNCHANGED <<appVars, continuation_entry, prefix, assistant_chunks, spoken_upto,
                 error_status, spoken, resent, displayed, events, stop_observed, notices, fault>>
  /\ response' = "open"
  /\ UNCHANGED uiVars
  /\ UNCHANGED apVars
  /\ UNCHANGED <<fnVars, tfVars>>

\* stream_local_llm: a data line that repeats the last k characters already sent
\* and goes on with new reply text d
StreamRecvResend(k, d) ==
  /\ srPc = "recv"
  /\ ~stop_event
  /\ k \in 1..Len(sent)
  /\ InBounds(d) \/ (sent = HelloWor /\ assistant_chunks = HelloWor /\ k = 3 /\ d = LdFriend)
  /\ chunk' = Slice(sent, Len(sent) - k, Len(sent)) \o d
  /\ sent' = sent \o d
  /\ resent' = TRUE
  /\ srPc' = "chunk"
  /\ UNCHANGED <<appVars, continuation_entry, prefix, assistant_chunks, spoken_upto,
                 error_status, spoken, displayed, events, stop_observed, notices, fault>>
  /\ response' = "open"
  /\ UNCHANGED uiVars
  /\ UNCHANGED apVars
  /\ UNCHANGED <<fnVars, tfVars>>

\* stream_local_llm: the line "data: [DONE]" with the flag clear, or the end of
\* the body: the sequence ends
StreamRecvDone ==
  /\ srPc = "recv"
  /\ srPc' = "else"
  /\ UNCHANGED <<appVars, continuation_entry, prefix, assistant_chunks, spoken_upto,
                 error_status, chunk, logVars>>
  /\ response' = "closed"
  /\ UNCHANGED uiVars
  /\ UNCHANGED apVars
  /\ UNCHANGED <<fnVars, tfVars>>

\* pop_if_fresh that takes the last entry off in either case
pop_always(msgs, entry) ==
  IF msgs # <<>> THEN SubSeq(msgs, 1, Len(msgs) - 1) ELSE msgs

\* a fresh turn gives up its user message: if continuation_entry is None and
\* self.messages: self.messages.pop()
pop_if_fresh(msgs, entry) ==
  IF entry = 0 /\ msgs # <<>> THEN SubSeq(msgs, 1, Len(msgs) - 1) ELSE msgs

\* StreamRecvError with one except clause for both kinds of exception
StreamRecvError_oneKind(kind) ==
  /\ srPc = "recv"
  /\ kind = "client" => ~stop_event
  /\ response' \in IF kind = "request" /\ response = "none"
                     THEN {"none", "open", "closed"} ELSE {"closed"}
  /\ messages' = pop_if_fresh(messages, continuation_entry)
  /\ fault' = kind
  /\ notices' = Append(notices, "[Request Error]")
  /\ error_status' = "Request failed."
  /\ srPc' = "finally"
  /\ UNCHANGED <<continuation_target, stop_event, text_only, audio_disabled,
                 continuation_entry, prefix, assistant_chunks, spoken_upto, chunk,
                 spoken, sent, resent, displayed, events, stop_observed>>
  /\ UNCHANGED uiVars
  /\ UNCHANGED apVars
  /\ UNCHANGED <<fnVars, tfVars>>

\* the request or the reading of the body raises requests.RequestException
\* ("request"), or a data line with the flag clear is no JSON and
\* stream_local_llm raises ChatClientError ("client"); the except clause.
\* requests.post raises and there is no response, or raise_for_status raises
\* before the try statement and the response stays open; an exception inside
\* the try statement closes it in the finally clause
StreamRecvError(kind) ==
  /\ srPc = "recv"
  /\ kind = "client" => ~stop_event
  /\ response' \in IF kind = "request" /\ response = "none"
                     THEN {"none", "open", "closed"} ELSE {"closed"}
  /\ messages' = pop_if_fresh(messages, continuation_entry)
  /\ fault' = kind
  /\ notices' = Append(notices, IF kind = "request" THEN "[Request Error]"
                                                       ELSE "[Client Error]")
  /\ error_status' = IF kind = "request" THEN "Request failed." ELSE "Client error."
  /\ srPc' = "finally"
  /\ UNCHANGED <<continuation_target, stop_event, text_only, audio_disabled,
                 continuation_entry, prefix, assistant_chunks, spoken_upto, chunk,
                 spoken, sent, resent, displayed, events, stop_observed>>
  /\ UNCHANGED uiVars
  /\ UNCHANGED apVars
  /\ UNCHANGED <<fnVars, tfVars>>

\* the texts of the first n of the pairs <<segment, new_index>>
Texts(segments, n) == [i \in 1..n |-> segments[i][1]]

\* One chunk in the loop body: the overlap with the buffer is cut off, the rest
\* appended; with audio on, the completed segments are spoken one after the
\* other (speak_text synthesizes and plays before it returns) and the cursor
\* follows each call that returned: done calls return, and the next one, if any,
\* raises and turns audio off; then the flag is read, and a break drops the
\* suspended generator, whose finally clause closes the response
ProcessChunkCore ==
  /\ srPc = "chunk"
  /\ LET overlap == leading_overlap(assistant_chunks, chunk)
         trimmed_chunk == Slice(chunk, overlap, Len(chunk))
         cumulative == assistant_chunks \o trimmed_chunk
         segments == extract_speakable_segments(cumulative, spoken_upto)
     IN  IF trimmed_chunk = <<>>
           THEN /\ srPc' = "recv"
                /\ UNCHANGED <<assistant_chunks, spoken_upto, spoken, text_only,
                               audio_disabled, displayed, events, stop_observed, response,
                               notices>>
         ELSE IF text_only
           THEN /\ assistant_chunks' = cumulative
                /\ displayed' = Append(displayed, trimmed_chunk)
                /\ events' = Append(events, <<"assistant_chunk", trimmed_chunk>>)
                /\ srPc' = "recv"
                /\ UNCHANGED <<spoken_upto, spoken, text_only, audio_disabled,
                               stop_observed, response, notices>>
         ELSE \E done \in 0..Len(segments) :
                /\ assistant_chunks' = cumulative
                /\ displayed' = Append(displayed, trimmed_chunk)
                /\ events' = Append(events, <<"assistant_chunk", trimmed_chunk>>)
                /\ spoken' = spoken \o Texts(segments, Min(done + 1, Len(segments)))
                /\ spoken_upto' = IF done = 0 THEN spoken_upto ELSE segments[done][2]
                /\ text_only' = (done < Len(segments))
                /\ audio_disabled' = (audio_disabled \/ done < Len(segments))
                /\ notices' = IF done < Len(segments)
                                THEN Append(notices, "[Audio Error]") ELSE notices
                /\ stop_observed' = stop_event
                /\ response' = IF stop_event THEN "closed" ELSE response
                /\ srPc' = IF stop_event THEN "else" ELSE "recv"
  /\ chunk' = <<>>
  /\ UNCHANGED <<messages, continuation_target, stop_event, continuation_entry,
                 prefix, error_status, sent, resent, fault>>
  /\ UNCHANGED apVars
  /\ UNCHANGED <<fnVars, tfVars>>

\* ProcessChunk that appends the chunk as it came: assistant_chunks.append(chunk)
ProcessChunk_appendsUntrimmed ==
  /\ srPc = "chunk"
  /\ LET overlap == leading_overlap(assistant_chunks, chunk)
         trimmed_chunk == Slice(chunk, overlap, Len(chunk))
         cumulative == assistant_chunks \o chunk
         segments == extract_speakable_segments(cumulative, spoken_upto)
     IN  IF trimmed_chunk = <<>>
           THEN /\ srPc' = "recv"
                /\ UNCHANGED <<assistant_chunks, spoken_upto, spoken, text_only,
                               audio_disabled, displayed, events, stop_observed, response,
                               notices>>
         ELSE IF text_only
           THEN /\ assistant_chunks' = cumulative
                /\ displayed' = Append(displayed, trimmed_chunk)
                /\ events' = Append(events, <<"assistant_chunk", trimmed_chunk>>)
                /\ srPc' = "recv"
                /\ UNCHANGED <<spoken_upto, spoken, text_only, audio_disabled,
                               stop_observed, response, notices>>
         ELSE \E done \in 0..Len(segments) :
                /\ assistant_chunks' = cumulative
                /\ displayed' = Append(displayed, trimmed_chunk)
                /\ events' = Append(events, <<"assistant_chunk", trimmed_chunk>>)
                /\ spoken' = spoken \o Texts(segments, Min(done + 1, Len(segments)))
                /\ spoken_upto' = IF done = 0 THEN spoken_upto ELSE segments[done][2]
                /\ text_only' = (done < Len(segments))
                /\ audio_disabled' = (audio_disabled \/ done < Len(segments))
                /\ notices' = IF done < Len(segments)
                                THEN Append(notices, "[Audio Error]") ELSE notices
                /\ stop_observed' = stop_event
                /\ response' = IF stop_event THEN "closed" ELSE response
                /\ srPc' = IF stop_event THEN "else" ELSE "recv"
  /\ chunk' = <<>>
  /\ UNCHANGED <<messages, continuation_target, stop_event, continuation_entry,
                 prefix, error_status, sent, resent, fault>>
  /\ UNCHANGED uiVars
  /\ UNCHANGED apVars
  /\ UNCHANGED <<fnVars, tfVars>>

\* ProcessChunkCore, the event queue and the widgets left out of the picture
ProcessChunk == ProcessChunkCore /\ UNCHANGED uiVars

\* ProcessChunkCore, and the handler of a raising speak_text puts the status event
ProcessChunkUi ==
  /\ ProcessChunkCore
  /\ queue' = IF ~text_only /\ text_only'
                THEN Append(queue, "Audio playback disabled after error.")
                ELSE queue
  /\ UNCHANGED <<status_var, send_enabled>>

\* remainder that takes the reply from its start: assistant_reply[0:]
remainder_whole(assistant_reply, upto) == assistant_reply

\* assistant_reply[spoken_upto:]
remainder(assistant_reply, upto) == Slice(assistant_reply, upto, Len(assistant_reply))

\* assistant_entry with the reply stripped of the whitespace around it
assistant_entry_stripped(assistant_reply) ==
  [role |-> "assistant", content |-> strip(assistant_reply)]

\* the entry of a fresh reply: {'role': 'assistant', 'content': assistant_reply, ...}
assistant_entry(assistant_reply) == [role |-> "assistant", content |-> assistant_reply]

\* The else clause: the stream ended without an exception (also after a break).
\* The reply is stored in the log, or a blank reply of a fresh turn takes the
\* last entry off; then the text after the cursor is spoken, if any is left
\* that is not blank; a raising speak_text turns audio off
StreamElseCore ==
  /\ srPc = "else"
  /\ LET blank == strip(assistant_chunks) = <<>>
         assistant_reply ==
           IF continuation_entry # 0 /\ blank THEN prefix ELSE assistant_chunks
         remaining == remainder(assistant_reply, spoken_upto)
     IN  /\ messages' =
              IF continuation_entry # 0
                THEN IF messages = <<>> \/ Len(messages) # continuation_entry
                       THEN Append(messages, assistant_entry(assistant_reply))
                       ELSE [messages EXCEPT ![continuation_entry].content = assistant_reply]
              ELSE IF blank
                THEN IF messages # <<>>
                       THEN SubSeq(messages, 1, Len(messages) - 1) ELSE messages
              ELSE Append(messages, assistant_entry(assistant_reply))
         /\ IF /\ assistant_reply # <<>>
               /\ ~text_only
               /\ spoken_upto < Len(assistant_reply)
               /\ strip(remaining) # <<>>
              THEN \E raises \in BOOLEAN :
                     /\ spoken' = Append(spoken, remaining)
                     /\ text_only' = raises
                     /\ audio_disabled' = (audio_disabled \/ raises)
                     /\ notices' = IF raises THEN Append(notices, "[Audio Error]")
                                              ELSE notices
              ELSE UNCHANGED <<spoken, text_only, audio_disabled, notices>>
  /\ srPc' = "finally"
  /\ UNCHANGED <<continuation_target, stop_event, continuation_entry, prefix,
                 assistant_chunks, spoken_upto, error_status, chunk, sent, resent,
                 displayed, events, stop_observed, fault>>
  /\ UNCHANGED response
  /\ UNCHANGED apVars
  /\ UNCHANGED <<fnVars, tfVars>>

\* StreamElse that speaks the text after the cursor without reading self.text_only
StreamElse_modeNotRead ==
  /\ srPc = "else"
  /\ LET blank == strip(assistant_chunks) = <<>>
         assistant_reply ==
           IF continuation_entry # 0 /\ blank THEN prefix ELSE assistant_chunks
         remaining == remainder(assistant_reply, spoken_upto)
     IN  /\ messages' =
              IF continuation_entry # 0
                THEN IF messages = <<>> \/ Len(messages) # continuation_entry
                       THEN Append(messages, assistant_entry(assistant_reply))
                       ELSE [messages EXCEPT ![continuation_entry].content = assistant_reply]
              ELSE IF blank
                THEN IF messages # <<>>
                       THEN SubSeq(messages, 1, Len(messages) - 1) ELSE messages
              ELSE Append(messages, assistant_entry(assistant_reply))
         /\ IF /\ assistant_reply # <<>>
               /\ spoken_upto < Len(assistant_reply)
               /\ strip(remaining) # <<>>
              THEN \E raises \in BOOLEAN :
                     /\ spoken' = Append(spoken, remaining)
                     /\ text_only' = raises
                     /\ audio_disabled' = (audio_disabled \/ raises)
                     /\ notices' = IF raises THEN Append(notices, "[Audio Error]")
                                              ELSE notices
              ELSE UNCHANGED <<spoken, text_only, audio_disabled, notices>>
  /\ srPc' = "finally"
  /\ UNCHANGED <<continuation_target, stop_event, continuation_entry, prefix,
                 assistant_chunks, spoken_upto, error_status, chunk, sent, resent,
                 displayed, events, stop_observed, fault>>
  /\ UNCHANGED response
  /\ UNCHANGED uiVars
  /\ UNCHANGED apVars
  /\ UNCHANGED <<fnVars, tfVars>>

\* StreamElseCore, the event queue and the widgets left out of the picture
StreamElse == StreamElseCore /\ UNCHANGED uiVars

\* StreamElseCore, and the handler of a raising speak_text puts the status event
StreamElseUi ==
  /\ StreamElseCore
  /\ queue' = IF ~text_only /\ text_only'
                THEN Append(queue, "Audio playback disabled after error.")
                ELSE queue
  /\ UNCHANGED <<status_var, send_enabled>>

\* The finally clause, up to self.stop_event.clear()
StreamFinallyCore ==
  /\ srPc = "finally"
  /\ stop_event' = FALSE
  /\ srPc' = "exit"
  /\ events' = events \o end_events(assistant_chunks)
  /\ UNCHANGED <<messages, continuation_target, text_only, audio_disabled,
                 continuation_entry, prefix, assistant_chunks, spoken_upto,
                 error_status, chunk, spoken, sent, resent, displayed,
                 stop_observed, notices, fault>>
  /\ UNCHANGED response
  /\ UNCHANGED apVars
  /\ UNCHANGED <<fnVars, tfVars>>

\* StreamFinallyCore, the event queue and the widgets left out of the picture
StreamFinally == StreamFinallyCore /\ UNCHANGED uiVars

\* StreamFinallyCore, and it puts the status of a cycle that was interrupted or has failed, the ready
\* status and enable_input
StreamFinallyUi ==
  /\ StreamFinallyCore
  /\ queue' = queue
               \o (IF stop_event /\ error_status = "None"
                     THEN <<"Response interrupted.">> ELSE <<>>)
               \o (IF error_status # "None" THEN <<error_status>> ELSE <<>>)
               \o <<ready_status(text_only, audio_disabled), "enable_input">>
  /\ UNCHANGED <<status_var, send_enabled>>

\* self.streaming_thread = None, and the thread ends
StreamExit ==
  /\ srPc = "exit"
  /\ srPc' = "idle"
  /\ UNCHANGED <<appVars, continuation_entry, prefix, assistant_chunks, spoken_upto,
                 error_status, chunk, logVars>>
  /\ UNCHANGED response
  /\ UNCHANGED uiVars
  /\ UNCHANGED apVars
  /\ UNCHANGED <<fnVars, tfVars>>

Ui ==
  \/ OnSend
  \/ ContinueCurrentMessage
  \/ OnStop

StreamResponse ==
  \/ \E templateOk \in BOOLEAN : StreamBegin(templateOk)
  \/ StreamRecvStopped
  \/ \E d \in DeltasLeft : StreamRecvDelta(d)
  \/ \E k \in 1..MaxLen, d \in DeltasLeft : StreamRecvResend(k, d)
  \/ StreamRecvDone
  \/ \E kind \in {"request", "client"} : StreamRecvError(kind)
  \/ ProcessChunk
  \/ StreamElse
  \/ StreamFinally
  \/ StreamExit

NextStream == Ui \/ StreamResponse

\* a ChatApp started with or without --text-only; the widgets are left out of
\* the picture here (no action of NextStream reads or writes them), so they
\* stand at one value
InitStream ==
  /\ InitAudioPlayer
  /\ \E textOnly \in BOOLEAN : InitChatApp(textOnly)
  /\ InitWidgets(FALSE)
  /\ InitFnIdle
  /\ InitTempfile("linux")

SpecStream == InitStream /\ [][NextStream]_vars

\* the reply texts of the cycles that are followed on the screen
UiDeltas == {<<"a", ".">>, <<"a">>}

\* The response cycles with the event queue, the status line and the send
\* button: the handlers of the UI thread, process_queue among them, and
\* stream_response
NextUi ==
  \/ OnSendUi
  \/ ContinueCurrentMessageUi
  \/ OnStopUi
  \/ ProcessQueue
  \/ \E templateOk \in BOOLEAN : StreamBegin(templateOk)
  \/ StreamRecvStopped
  \/ \E d \in UiDeltas : StreamRecvDelta(d)
  \/ StreamRecvDone
  \/ \E kind \in {"request", "client"} : StreamRecvError(kind)
  \/ ProcessChunkUi
  \/ StreamElseUi
  \/ StreamFinallyUi
  \/ StreamExit

\* a ChatApp started with or without --text-only, its widgets included
InitUi ==
  /\ InitAudioPlayer
  /\ \E textOnly \in BOOLEAN : InitChatApp(textOnly) /\ InitWidgets(textOnly)
  /\ InitFnIdle
  /\ InitTempfile("linux")

SpecUi == InitUi /\ [][NextUi]_vars

\* A response cycle whose stream carries no text, and the Stop button, next to
\* an AudioPlayer at work
NextCancel ==
  \/ NextRun
  \/ OnSend
  \/ OnStop
  \/ \E templateOk \in BOOLEAN : StreamBegin(templateOk)
  \/ StreamRecvStopped
  \/ StreamRecvDone
  \/ StreamElse
  \/ StreamFinally
  \/ StreamExit

SpecCancel == Init /\ [][NextCancel]_vars

(***************************************************************************)
(* Claims about stream_response                                            *)
(***************************************************************************)
\* a response cycle has come to its end without a stream error and with audio
\* on from its start to its end (a raising speak_text would have set text_only)
CycleSpokenToEnd == srPc = "idle" /\ error_status = "None" /\ ~text_only

\* the part of the buffer that this cycle has added to the prefix
NewInBuffer == Slice(assistant_chunks, Len(prefix), Len(assistant_chunks))

\* What the cycle speaks is the buffer: at the end of such a cycle the
\* characters passed to speak_text are, whitespace apart, those that the cycle
\* added to the buffer, once each and in order
SpokenIsNewInBuffer ==
  CycleSpokenToEnd => NonWhitespace(Join(spoken)) = NonWhitespace(NewInBuffer)

\* C9: at the end of a response cycle with audio on, without audio error and
\* without stream error, in which the server sent the reply split into chunks
\* in any way (no part of it twice), the non-whitespace characters passed to
\* speak_text are those of the reply that was sent, once each and in order.
C9_FullReplySpoken ==
  (CycleSpokenToEnd /\ ~resent) => NonWhitespace(Join(spoken)) = NonWhitespace(sent)

\* C10: when the stream has ended without error and the server has sent no part
\* of the reply twice, the buffer is the prefix followed by the deltas in the
\* order of their arrival.
C10_DedupLosesNoText ==
  (srPc \in {"else", "finally", "exit", "idle"} /\ error_status = "None" /\ ~resent)
    => assistant_chunks = prefix \o sent

(***************************************************************************)
(* Part III: leading_overlap and extract_speakable_segments applied to     *)
(* every text of bounded length and to the texts of the examples           *)
(***************************************************************************)
\* 'Hello world. How are you?<newline>I am fine'
HelloWorldText ==
  <<"H", "e", "l", "l", "o", " ", "w", "o", "r", "l", "d", ".", " ", "H",
    "o", "w", " ", "a", "r", "e", " ", "y", "o", "u", "?", "\n", "I", " ",
    "a", "m", " ", "f", "i", "n", "e">>

\* 'Hello world.'
HelloWorldFirst ==
  <<"H", "e", "l", "l", "o", " ", "w", "o", "r", "l", "d", ".">>

\* 'How are you?'
HowAreYou ==
  <<"H", "o", "w", " ", "a", "r", "e", " ", "y", "o", "u", "?">>

\* 'I am fine'
IAmFine ==
  <<"I", " ", "a", "m", " ", "f", "i", "n", "e">>

\* 'The cat sat'
TheCatSat ==
  <<"T", "h", "e", " ", "c", "a", "t", " ", "s", "a", "t">>

\* 'sat on the mat'
SatOnTheMat ==
  <<"s", "a", "t", " ", "o", "n", " ", "t", "h", "e", " ", "m", "a", "t">>

\* The characters of the texts given to the extractor: those of Chars and a
\* closing bracket, which is absorbed after a terminator and is none itself
FnChars == Chars \cup {")"}

FnStrings(n) == UNION {[1..k -> FnChars] : k \in 0..n}

\* the pairs <<existing, new_text>> given to leading_overlap
OvInputs == (Strings(MaxLen) \X Strings(MaxLen)) \cup {<<TheCatSat, SatOnTheMat>>}

\* the pairs <<text, start_index>> given to extract_speakable_segments
ExInputs ==
  {<<text, start>> \in FnStrings(MaxLen) \X (0..MaxLen) : start <= Len(text)}
    \cup {<<HelloWorldText, 0>>}

\* The while loop of extract_speakable_segments once more, keeping for every
\* segment it appends the bounds <<start_index, end>> of the piece of text the
\* segment is stripped from: text[start_index:end] at a terminator,
\* text[start_index:idx] at a newline
RECURSIVE scan_spans(_, _, _, _)
scan_spans(text, start_index, idx, spans) ==
  IF idx >= Len(text) THEN spans
  ELSE IF text[idx + 1] \in Terminators
    THEN LET end == absorb(text, idx + 1)
         IN  scan_spans(text, end, end,
                        IF strip(Slice(text, start_index, end)) # <<>>
                          THEN Append(spans, <<start_index, end>>) ELSE spans)
  ELSE IF text[idx + 1] = "\n"
    THEN scan_spans(text, idx + 1, idx + 1,
                    IF strip(Slice(text, start_index, idx)) # <<>>
                      THEN Append(spans, <<start_index, idx>>) ELSE spans)
  ELSE scan_spans(text, start_index, idx + 1, spans)

source_spans(text, start_index) == scan_spans(text, start_index, start_index, <<>>)

\* the new_index of the last pair, or cursor when there is none
last_cursor(segments, cursor) ==
  IF segments = <<>> THEN cursor ELSE segments[Len(segments)][2]

InitFn ==
  /\ InitAudioPlayer
  /\ InitChatApp(FALSE)
  /\ InitWidgets(FALSE)
  /\ InitTempfile("linux")
  /\ ovResult = 0
  /\ ovAppended = 0
  /\ ovEmpty = 0
  /\ exResult = <<>>
  /\ exSpans = <<>>
  /\ exOut = <<>>
  /\ \/ /\ fnPc = "overlap"
        /\ \E pair \in OvInputs : ovExisting = pair[1] /\ ovNew = pair[2]
        /\ exText = <<>>
        /\ exStart = 0
     \/ /\ fnPc = "extract"
        /\ \E pair \in ExInputs : exText = pair[1] /\ exStart = pair[2]
        /\ ovExisting = <<>>
        /\ ovNew = <<>>
  /\ exFed = exStart
  /\ exCursor = exStart

\* leading_overlap is called on the pair, on existing and existing + new_text,
\* and on existing and the empty string
OverlapCall ==
  /\ fnPc = "overlap"
  /\ ovResult' = leading_overlap(ovExisting, ovNew)
  /\ ovAppended' = leading_overlap(ovExisting, ovExisting \o ovNew)
  /\ ovEmpty' = leading_overlap(ovExisting, <<>>)
  /\ fnPc' = "done"
  /\ UNCHANGED <<ovExisting, ovNew, exVars>>
  /\ UNCHANGED <<apVars, srVars, tfVars>>

\* extract_speakable_segments is called once on the whole text
ExtractCall ==
  /\ fnPc = "extract"
  /\ exResult' = extract_speakable_segments(exText, exStart)
  /\ exSpans' = source_spans(exText, exStart)
  /\ fnPc' = IF exFed < Len(exText) THEN "feed" ELSE "done"
  /\ UNCHANGED <<ovVars, exText, exStart, exFed, exCursor, exOut>>
  /\ UNCHANGED <<apVars, srVars, tfVars>>

\* The text arrives in chunks, as in stream_response: n more characters, and
\* extract_speakable_segments is called on what has arrived, from the last
\* cursor it returned
ExtractFeed ==
  /\ fnPc = "feed"
  /\ \E n \in 1..(Len(exText) - exFed) :
       LET cumulative == Slice(exText, 0, exFed + n)
           segments == extract_speakable_segments(cumulative, exCursor)
       IN  /\ exOut' = exOut \o segments
           /\ exCursor' = last_cursor(segments, exCursor)
           /\ exFed' = exFed + n
           /\ fnPc' = IF exFed + n < Len(exText) THEN "feed" ELSE "done"
  /\ UNCHANGED <<ovVars, exText, exStart, exResult, exSpans>>
  /\ UNCHANGED <<apVars, srVars, tfVars>>

NextFn ==
  \/ OverlapCall
  \/ ExtractCall
  \/ ExtractFeed

SpecFn == InitFn /\ [][NextFn]_vars

(***************************************************************************)
(* Claims about the pure helpers                                           *)
(***************************************************************************)
\* the whole text has been given to the extractor at once and chunk by chunk
AllArrived == fnPc = "done" /\ exFed = Len(exText)

\* C11: for every text and every way of splitting it into chunks, the segments
\* returned chunk by chunk (each call on the text that has arrived, from the
\* last returned cursor) are, in order, the segments returned by one call on
\* the whole text from cursor 0.
C11_ChunkingIndependence ==
  (AllArrived /\ exStart = 0) =>
    Texts(exOut, Len(exOut)) = Texts(exResult, Len(exResult))

\* one call of extract_speakable_segments on the whole text has returned
Extracted == fnPc \in {"feed", "done"}

\* text[from:to] for each of the pairs <<from, to>>
SpanTexts(text, spans) ==
  [i \in 1..Len(spans) |-> Slice(text, spans[i][1], spans[i][2])]

\* the pieces the segments were stripped from, then the text after the last
\* returned cursor
Rebuilt ==
  Join(SpanTexts(exText, exSpans))
    \o Slice(exText, last_cursor(exResult, exStart), Len(exText))

\* the pairs of exSpans are those of the segments returned
SpansOfResult ==
  /\ Len(exSpans) = Len(exResult)
  /\ \A i \in 1..Len(exSpans) :
       strip(Slice(exText, exSpans[i][1], exSpans[i][2])) = exResult[i][1]

\* C12 as stated: for every text and start 0, the pieces of text the returned
\* segments were stripped from, followed by the text after the last returned
\* cursor, are the text.
C12_SpansRebuildText ==
  (Extracted /\ exStart = 0) => (SpansOfResult /\ Rebuilt = exText)

\* C12 amended: they are the text but for whitespace (the newline that ends a
\* segment and lines of whitespace are in no piece), and they are the text
\* when it holds no newline.
C12_SpansRebuildTextButWhitespace ==
  (Extracted /\ exStart = 0) =>
    /\ SpansOfResult
    /\ NonWhitespace(Rebuilt) = NonWhitespace(exText)
    /\ "\n" \notin Range(exText) => Rebuilt = exText

\* a segment ended by a newline and a rest: the newline is in neither
C12_Witness ==
  /\ Extracted
  /\ exText = <<"a", "\n", "a">>
  /\ exSpans = <<<<0, 1>>>>
  /\ Rebuilt = <<"a", "a">>

\* the text after the last returned cursor
Unconsumed == Slice(exText, last_cursor(exResult, exStart), Len(exText))

\* the example text has been given to the extractor with start 0
HelloWorldExtracted == Extracted /\ exText = HelloWorldText /\ exStart = 0

\* C13 as stated: on 'Hello world. How are you?<newline>I am fine' with start 0
\* the extractor returns [("Hello world.", 12), ("How are you?", 25)].
C13_ExampleCursors12And25 ==
  HelloWorldExtracted =>
    exResult = <<<<HelloWorldFirst, 12>>, <<HowAreYou, 25>>>>

\* C13 amended: it returns [("Hello world.", 13), ("How are you?", 26)], each
\* cursor after the whitespace that follows the terminator, and "I am fine"
\* remains unconsumed.
C13_ExampleCursors13And26 ==
  HelloWorldExtracted =>
    /\ exResult = <<<<HelloWorldFirst, 13>>, <<HowAreYou, 26>>>>
    /\ Unconsumed = IAmFine

\* the extractor has returned two segments on the example text
C13_Witness == HelloWorldExtracted /\ Len(exResult) = 2 /\ Unconsumed = IAmFine

\* the last k characters of existing are the first k characters of new_text
SuffixIsPrefix(existing, new_text, k) ==
  \A i \in 1..k : existing[Len(existing) - k + i] = new_text[i]

\* C15: leading_overlap(existing, incoming) is the largest k between 0 and the
\* shorter length such that the last k characters of existing are the first k
\* of incoming, 0 when no k above 0 is such; for "The cat sat" and
\* "sat on the mat" it is 3.
C15_LargestOverlap ==
  fnPc = "done" =>
    /\ ovResult \in 0..Min(Len(ovExisting), Len(ovNew))
    /\ SuffixIsPrefix(ovExisting, ovNew, ovResult)
    /\ \A k \in (ovResult + 1)..Min(Len(ovExisting), Len(ovNew)) :
         ~SuffixIsPrefix(ovExisting, ovNew, k)
    /\ (ovExisting = TheCatSat /\ ovNew = SatOnTheMat) => ovResult = 3

\* the call of the example has returned 3
C15_Witness ==
  fnPc = "done" /\ ovExisting = TheCatSat /\ ovNew = SatOnTheMat /\ ovResult = 3

\* C16: for all strings existing and x, leading_overlap(existing, existing + x)
\* is the length of existing, and leading_overlap(existing, "") is 0.
C16_OverlapWithOwnExtension ==
  (fnPc = "done" /\ exText = <<>>) =>
    (ovAppended = Len(ovExisting) /\ ovEmpty = 0)

\* existing and x are not empty, and x begins like existing
C16_Witness ==
  /\ fnPc = "done"
  /\ ovExisting = <<"a", ".">>
  /\ ovNew = <<"a">>
  /\ ovAppended = 2

\* C17: in one call of extract_speakable_segments(text, start) the segments
\* come from left to right (each is stripped from a piece of text that begins
\* at or after the cursor of the one before), none is empty or has whitespace
\* at either end, and the cursors strictly increase, from above start up to
\* at most the length of the text.
C17_SegmentsInOrder ==
  Extracted =>
    /\ SpansOfResult
    /\ \A i \in 1..Len(exResult) :
         /\ exResult[i][1] # <<>>
         /\ strip(exResult[i][1]) = exResult[i][1]
         /\ exStart < exResult[i][2]
         /\ exResult[i][2] <= Len(exText)
         /\ exSpans[i][1] < exSpans[i][2]
         /\ exSpans[i][2] <= exResult[i][2]
         /\ (IF i = 1 THEN exStart ELSE exResult[i - 1][2]) <= exSpans[i][1]
    /\ \A i \in 1..(Len(exResult) - 1) : exResult[i][2] < exResult[i + 1][2]

\* the two segments of the example text, the second cursor above the first
C17_Witness ==
  /\ Extracted
  /\ exText = HelloWorldText
  /\ Len(exResult) = 2
  /\ exResult[1][2] < exResult[2][2]

(***************************************************************************)
(* Claims about stream_response, continued                                 *)
(***************************************************************************)
\* the two chunks of the example have arrived in a fresh turn and the second
\* has been processed
ExampleStreamed == prefix = <<>> /\ sent = HelloWorldFriend /\ resent /\ srPc # "chunk"

\* C14 as stated: when the server streams 'Hello wor' and then 'world, friend.',
\* the buffer is 'Hello world, friend.' and, with audio on, the extractor emits
\* that text as one segment, with cursor 21.
C14_EndToEndCursor21 ==
  ExampleStreamed =>
    /\ assistant_chunks = HelloWorldFriend
    /\ ~text_only => (spoken = <<HelloWorldFriend>> /\ spoken_upto = 21)

\* C14 amended: the cursor is 20, the length of the buffer.
C14_EndToEndCursor20 ==
  ExampleStreamed =>
    /\ assistant_chunks = HelloWorldFriend
    /\ ~text_only => (spoken = <<HelloWorldFriend>> /\ spoken_upto = 20)

\* the example has been streamed and spoken, and the cycle has ended
C14_Witness ==
  /\ ExampleStreamed
  /\ srPc = "idle"
  /\ spoken = <<HelloWorldFriend>>
  /\ spoken_upto = Len(assistant_chunks)

\* the step in which stream_response sets its locals
CycleBegins == srPc = "begin" /\ srPc' # "begin"

\* C18: in every state of a response cycle the speech cursor is at least 0 and
\* at most the length of the buffer; it starts at 0 in a fresh turn and at the
\* length of the continued message in a continuation, and no step of the
\* cycle moves it back.
C18_CursorWithinBuffer ==
  /\ [](0 <= spoken_upto /\ spoken_upto <= Len(assistant_chunks))
  /\ [][CycleBegins =>
          spoken_upto' = IF continuation_target = 0 THEN 0
                         ELSE Len(messages[continuation_target].content)]_vars
  /\ [][~CycleBegins => spoken_upto' >= spoken_upto]_vars

\* in a continuation the cursor has moved on from the end of the continued message
C18_Witness ==
  /\ continuation_entry # 0
  /\ prefix # <<>>
  /\ spoken_upto > Len(prefix)
  /\ srPc = "recv"

\* the step in which stream_response processes the chunk it was given
ProcessesChunk == srPc = "chunk" /\ srPc' # "chunk"

\* s is the beginning of t
IsPrefix(s, t) == Len(s) <= Len(t) /\ SubSeq(t, 1, Len(s)) = s

\* C19: processing a delta d against the buffer b gives b + d[k:] with
\* k = leading_overlap(b, d); a delta that is empty after trimming leaves the
\* buffer, the display events on the queue and the cursor as they were; and in
\* every step of a cycle the buffer before is the beginning of the buffer after.
C19_BufferAppendOnly ==
  /\ [][ProcessesChunk =>
          LET d == Slice(chunk, leading_overlap(assistant_chunks, chunk), Len(chunk))
          IN  /\ assistant_chunks' = assistant_chunks \o d
              /\ d # <<>> => displayed' = Append(displayed, d)
              /\ d = <<>> => /\ assistant_chunks' = assistant_chunks
                              /\ displayed' = displayed
                              /\ spoken_upto' = spoken_upto]_vars
  /\ [][~CycleBegins => IsPrefix(assistant_chunks, assistant_chunks')]_vars

\* a delta that only repeated the end of the buffer has been processed
C19_Witness ==
  /\ srPc = "recv"
  /\ resent
  /\ sent = <<"a", ".">>
  /\ assistant_chunks = <<"a", ".">>
  /\ displayed = <<<<"a", ".">>>>
  /\ spoken_upto = 2

\* the text of the buffer after the cursor
AfterCursor == Slice(assistant_chunks, spoken_upto, Len(assistant_chunks))

\* the step of the else clause, taken when the stream has ended without an
\* exception
StreamEnds == srPc = "else" /\ srPc' = "finally"

\* C20: with audio on, the text the extractor has left after the last cursor
\* holds no terminator, and the extractor called again on the buffer from that
\* cursor returns no segment; when the stream ends, stream_response passes that
\* text to speak_text in one call if it is not blank, and makes no call if it is.
C20_PartialSentenceLeftAndFlushed ==
  /\ [](~text_only =>
          /\ Range(AfterCursor) \cap Terminators = {}
          /\ extract_speakable_segments(assistant_chunks, spoken_upto) = <<>>)
  /\ [][(StreamEnds /\ ~text_only) =>
          spoken' = IF strip(AfterCursor) # <<>>
                      THEN Append(spoken, AfterCursor) ELSE spoken]_vars

\* a sentence was spoken while streaming and the partial sentence after it in
\* the one call at the end
C20_Witness ==
  /\ srPc = "finally"
  /\ assistant_chunks = <<"a", ".", "a">>
  /\ spoken_upto = 2
  /\ spoken = <<<<"a", ".">>, <<"a">>>>

\* C21: once the stop flag has been read set by the stream client or by
\* stream_response, no further text of that response is passed to speak_text,
\* neither a segment nor the text left after the cursor at the end of the cycle.
C21_NoSpeechAfterStopObserved ==
  [][(stop_observed /\ ~CycleBegins) => spoken' = spoken]_vars

\* the step of on_stop that sets the flag
StopPressed == ~stop_event /\ stop_event'

\* C22: on_stop changes the stop flag only (and the status message): the
\* request queue and the audio-buffer queue keep their items, the player's stop
\* flag and its error slot stay as they are, the buffer that is sounding goes on
\* sounding, and the conversation, the mode and the thread's locals are untouched.
C22_OnStopLeavesAudioAlone ==
  [][StopPressed =>
       /\ text_queue' = text_queue
       /\ play_queue' = play_queue
       /\ stop_flag' = stop_flag
       /\ first_error' = first_error
       /\ sounding' = sounding
       /\ played' = played
       /\ <<pbPc, pbItem, genPc, genItem>>' = <<pbPc, pbItem, genPc, genItem>>
       /\ <<messages, text_only, audio_disabled, thVars>>'
            = <<messages, text_only, audio_disabled, thVars>>]_vars

\* Stop has been pressed in a cycle that is under way; the player's flag is
\* clear, its second buffer is sounding and a third is queued
C22_Witness ==
  /\ stop_event
  /\ srPc = "recv"
  /\ ~stop_flag
  /\ sounding = {2}
  /\ play_queue # <<>>

\* the sequence of the stream client has ended, and not by a network failure
SequenceEnded ==
  /\ srPc \in {"else", "finally", "exit"}
  /\ error_status # "Request failed."

\* C23: the stream client reads the stop flag at each line before it parses
\* the line: while the flag is set no line makes it yield text, and the
\* sequence ends with the HTTP response closed; the response is closed as well
\* when the sequence ends by [DONE], by the end of the body or by a line that
\* is no JSON.
C23_FlagReadBeforeParsing ==
  /\ [][(srPc = "recv" /\ stop_event) =>
          /\ srPc' # "chunk"
          /\ chunk' = chunk
          /\ sent' = sent
          /\ (srPc' = "else" /\ stop_observed') => response' = "closed"]_vars
  /\ [](SequenceEnded => response = "closed")

\* text was yielded and displayed in a text-only cycle, where stream_response
\* does not read the flag; then the client read the flag set at the next line
\* and ended the sequence
C23_Witness ==
  /\ srPc = "else"
  /\ text_only
  /\ stop_observed
  /\ response = "closed"
  /\ chunk = <<>>
  /\ displayed = <<<<"a">>>>
  /\ sent = <<"a">>

\* the step on which the stream ends by an exception
StreamFails == fault = "none" /\ fault' # "none"

\* C24: a data line that is no JSON ends the stream with a ChatClientError:
\* the cycle goes to its end without another read and without another chunk, and
\* what was displayed before stays; stream_response reports it by the notice
\* [Client Error] and the status 'Client error.', and a network failure by the
\* notice [Request Error] and the status 'Request failed.', never the other way.
C24_MalformedLineIsClientError ==
  /\ [][StreamFails =>
          /\ srPc' = "finally"
          /\ chunk' = chunk
          /\ sent' = sent
          /\ displayed' = displayed
          /\ assistant_chunks' = assistant_chunks]_vars
  /\ [](fault # "none" => srPc \notin {"recv", "chunk", "else"})
  /\ [](fault = "client" =>
          /\ error_status = "Client error."
          /\ "[Client Error]" \in Range(notices)
          /\ "[Request Error]" \notin Range(notices))
  /\ [](fault = "request" =>
          /\ error_status = "Request failed."
          /\ "[Request Error]" \in Range(notices)
          /\ "[Client Error]" \notin Range(notices))
  /\ [](fault = "none" =>
          /\ error_status = "None"
          /\ Range(notices) \subseteq {"[Audio Error]"})

\* a chunk was displayed, then a line that was no JSON ended the stream
C24_Witness ==
  /\ fault = "client"
  /\ srPc = "finally"
  /\ displayed = <<<<"a">>>>
  /\ error_status = "Client error."

\* the cycle has ended by a network failure
RequestFailed == fault = "request" /\ srPc \in {"finally", "exit", "idle"}

\* C25: when the stream of a cycle ends by a network failure, the text
\* accumulated so far is not stored: the log gets no assistant entry in a fresh
\* turn, and the content of a continued message is what it was when the cycle
\* started (the local prefix); the cycle changes the log at no other step.
C25_NetworkErrorDiscardsPartialReply ==
  /\ [][(StreamFails /\ fault' = "request") =>
          IF continuation_entry = 0
            THEN IsPrefix(messages', messages)
            ELSE messages' = messages]_vars
  /\ [][(srPc \in {"begin", "recv", "chunk"} /\ ~StreamFails) =>
          messages' = messages]_vars
  /\ [][RequestFailed => (messages' = messages \/ srPc = "idle")]_vars
  /\ [](RequestFailed /\ continuation_entry # 0 =>
          /\ continuation_entry <= Len(messages)
          /\ messages[continuation_entry].content = prefix)

\* a continuation had added text to the buffer when the network failed: the
\* message has its old content
C25_Witness ==
  /\ RequestFailed
  /\ srPc = "idle"
  /\ continuation_entry = 2
  /\ prefix = <<"a">>
  /\ assistant_chunks = <<"a", "a">>
  /\ messages[2].content = <<"a">>

\* the step on which a speak_text call raises
AudioFails == ~text_only /\ text_only'

\* C26: an exception of a speak_text call in stream_response is reported by the
\* notice [Audio Error] and does not end the response: no error status is set and
\* the cycle goes on; text_only is true from then on and never false again, no
\* further speak_text call is made in this cycle or a later one, and the chunks
\* that follow are still appended to the buffer, displayed, and stored as the
\* assistant message at the end of the stream.
C26_AudioErrorFallsBackToTextOnly ==
  /\ [][AudioFails =>
          /\ notices' = Append(notices, "[Audio Error]")
          /\ audio_disabled'
          /\ error_status' = "None"
          /\ fault' = "none"
          /\ srPc' \in {"recv", "else", "finally"}]_vars
  /\ [][text_only => text_only']_vars
  /\ [][(text_only /\ ~CycleBegins) => spoken' = spoken]_vars
  /\ [][(text_only /\ ProcessesChunk) =>
          LET d == Slice(chunk, leading_overlap(assistant_chunks, chunk), Len(chunk))
          IN  /\ assistant_chunks' = assistant_chunks \o d
              /\ d # <<>> => displayed' = Append(displayed, d)]_vars
  /\ [][(text_only /\ StreamEnds /\ strip(assistant_chunks) # <<>>) =>
          messages'[Len(messages')] = assistant_entry(assistant_chunks)]_vars

\* speak_text raised on the first sentence; the chunk after it was displayed and
\* the whole reply stored
C26_Witness ==
  /\ srPc = "idle"
  /\ text_only
  /\ notices = <<"[Audio Error]">>
  /\ spoken = <<<<"a", ".">>>>
  /\ displayed = <<<<"a", ".">>, <<"a">>>>
  /\ messages[Len(messages)] = assistant_entry(<<"a", ".", "a">>)

\* no response cycle is under way and the UI has taken every event off the queue
CycleOverAndDrained == ~ThreadAlive /\ queue = <<>>

\* C27: whichever way a response cycle started by send or continue has ended,
\* once the UI has drained its event queue the send button is enabled and the
\* status line shows the ready text.
C27_EveryExitReenablesInput ==
  CycleOverAndDrained => (send_enabled /\ status_var \in ReadyTexts)

\* _build_prompt has raised ChatClientError in the cycle that was started last
TemplateFailed == srPc = "dead"

\* C28: a failure to compile or render the prompt template is reported like a
\* malformed payload, by the notice [Client Error] and not by [Request Error];
\* it ends the current response only, and the thread is out of the way of the
\* next send.
C28_TemplateFailureIsClientError ==
  TemplateFailed =>
    /\ "[Client Error]" \in Range(notices)
    /\ "[Request Error]" \notin Range(notices)
    /\ ~ThreadAlive

(***************************************************************************)
(* Claims about the AudioPlayer under a burst of requests                  *)
(***************************************************************************)
\* the buffers that are synthesized and that the playback worker has not taken:
\* those in the audio queue, and the one the generation worker is putting
Untaken ==
  (Range(play_queue) \ {playback_sentinel})
    \cup (IF genPc \in {"put", "putTry"} THEN {genItem} ELSE {})

\* the generation worker has found the audio queue full and tries again
GeneratorWaits ==
  /\ Len(play_queue) = PlayQueueMaxsize
  /\ genPc \in {"put", "putTry"}
  /\ genItem \in Reqs

\* C29: the audio queue never holds more than 4 items, so at most 4 queued
\* buffers and the one the generation worker is waiting to put are synthesized
\* and not yet taken by the playback worker; the put on the request queue
\* succeeds whatever the queues hold.
C29_BackpressureBound ==
  /\ [](Len(play_queue) <= 4)
  /\ [](Cardinality(Untaken) <= 4 + 1)
  /\ [][(callPc = "enq" /\ callPc' # "enq") =>
          text_queue' = Append(text_queue, callReq)]_vars

\* the audio queue is full and the generation worker holds one more buffer
C29_Witness == GeneratorWaits /\ Cardinality(Untaken) = 5

\* the step by which a call of speak_text begins
SpeakTextIsCalled == callPc = "idle" /\ callPc' # "idle"

\* C30: speak_text does not wait and does not fail for a full queue: with no
\* error captured a call goes on to enqueue its request, or ignores blank text,
\* and raises nothing; the put on the request queue and the return are possible
\* in every state, also while the audio queue is full and the generation worker
\* is trying to put; the full queue holds up the generation worker only.
C30_SpeakTextNeverBlocks ==
  /\ [][(SpeakTextIsCalled /\ first_error = NoError) =>
          /\ callPc' = IF callText' = "blank" THEN "ignored" ELSE "enq"
          /\ raisedErr' = NoError]_vars
  /\ [](callPc = "enq" => ENABLED SpeakTextPut)
  /\ [](callPc \in {"raised", "ignored", "enqueued"} => ENABLED SpeakTextReturn)
  /\ [][(callPc = "enq" /\ callPc' # "enq") =>
          /\ callPc' = "enqueued"
          /\ text_queue' = Append(text_queue, callReq)
          /\ raisedErr' = NoError]_vars

\* a request is being enqueued while the audio queue is full and the generation
\* worker waits with a buffer
C30_Witness ==
  /\ GeneratorWaits
  /\ callPc = "enq"
  /\ first_error = NoError

(***************************************************************************)
(* Claims about the temporary-file fallback                                *)
(***************************************************************************)
\* the call of _play_via_tempfile has returned or raised
TempCallOver == tfPc \in {"returned", "raised"}

\* C31: by the time a call of _play_via_tempfile returns or raises, every
\* temporary file that was created is deleted, whether writing the audio,
\* choosing the player or running it succeeded or failed.
C31_TempFileAlwaysDeleted == TempCallOver => tmp_files = {}

(***************************************************************************)
(* Claims about the workers of the AudioPlayer                             *)
(***************************************************************************)
\* the playback worker comes back from _play_buffer
PlayBufferIsOver == pbPc = "playing" /\ pbPc' # "playing"

\* C32: an audio error ends no worker: while stop() is not called neither
\* worker leaves its loop, whatever synthesis and playback raise; when
\* _play_buffer is over the playback worker is back at the head of its loop,
\* and the error slot has changed only if it was empty, to the error of that
\* buffer; every buffer on the audio queue is in the end handed to the device,
\* also when the buffers before it failed to play.
C32_AudioErrorsEndNoWorker ==
  /\ [](genPc # "exit" /\ pbPc # "exit")
  /\ [][PlayBufferIsOver =>
         /\ pbPc' = "loop"
         /\ first_error' # first_error =>
              (first_error = NoError /\ first_error' = <<"play", pbItem>>)]_vars
  /\ \A r \in Reqs : (r \in Range(play_queue)) ~> (r \in Range(played))

\* playing buffer 1 raised and was recorded, and buffer 2, queued behind it,
\* was played
C32_Witness ==
  /\ first_error = <<"play", 1>>
  /\ played = <<1, 2>>
  /\ pbPc = "loop"

\* C33: after a call of stop() has returned, both workers in the end leave
\* their loops and stay out, wherever they were: the generation worker waiting
\* for room in the full audio queue, the playback worker waiting on the empty
\* one.
C33_WorkersExitAfterStop ==
  stopReturned ~> [](genPc = "exit" /\ pbPc = "exit")

\* stop() was called while the audio queue was full and the generation worker
\* held the buffer of request 2; that buffer was dropped, and both workers have
\* left their loops
C33_Witness ==
  /\ stopReturned
  /\ Cardinality(pendingAtStop) = PlayQueueMaxsize
  /\ synth[2] = "audio"
  /\ 2 \notin pendingAtStop \cup Range(played) \cup Range(play_queue)
  /\ genPc = "exit"
  /\ pbPc = "exit"

\* the buffer of request r has been played to its end
PlayedToEnd(r) == r \in Range(played) /\ r \notin sounding

\* C34: in a run without stop() in which no synthesis and no playback raises,
\* under fair scheduling of both workers, every request put on the text queue
\* whose synthesis gives audio is in the end played to its end, and so is every
\* buffer of the backlog, also while the generation worker waits again and
\* again for room in the full audio queue.
C34_EventualPlayback ==
  [](first_error = NoError) =>
    /\ \A r \in Reqs :
         (r \in Range(text_queue)) ~> (synth[r] = "empty" \/ PlayedToEnd(r))
    /\ <>(\A b \in Range(BacklogReqs) : PlayedToEnd(b))

\* the backlog and the three requests of the burst were played to their ends,
\* without an error
C34_Witness ==
  /\ first_error = NoError
  /\ played = BacklogReqs \o <<1, 2, 3>>
  /\ sounding = {}

(***************************************************************************)
(* Claims about the threads of ChatApp                                     *)
(***************************************************************************)
\* the entry that _continue_current_message would continue is there
CanContinue == messages # <<>> /\ messages[Len(messages)].role = "assistant"

\* C35: at most one stream_response thread runs: while a thread is alive no
\* step starts a thread (none leads to the head of stream_response), the
\* conversation log changes only in a step of the running thread itself, and
\* the stop flag is cleared only by that thread's own cleanup, so a send or a
\* continue command given meanwhile does nothing.
C35_OneOrchestratingThread ==
  [][ThreadAlive =>
       /\ srPc' = "begin" => srPc = "begin"
       /\ messages' # messages => srPc' # srPc
       /\ (stop_event /\ ~stop_event') => (srPc = "finally" /\ srPc' = "exit")]_vars

\* a thread is receiving the reply to a continue command, and the entry it
\* continues could be continued once more
C35_Witness ==
  /\ srPc = "recv"
  /\ continuation_entry # 0
  /\ assistant_chunks # prefix
  /\ CanContinue

\* a stream_response thread is started
ThreadStarts == ~ThreadAlive /\ ThreadAlive'

\* C36: a stop acts on the response in flight only: every response starts with
\* the stop flag clear, whatever on_stop did while the response before it was
\* ending, and the flag gets set only while a thread is alive, by a step that
\* is none of that thread's own.
C36_StopActsOnResponseInFlight ==
  /\ [][ThreadStarts => ~stop_event']_vars
  /\ [][(~stop_event /\ stop_event') =>
         (ThreadAlive /\ srPc' = srPc)]_vars

\* Stop was pressed after the cleanup of a response had cleared the flag and
\* put enable_input, its status event is still on the queue; the next
\* response has been started and receives with the flag clear
C36_Witness ==
  /\ srPc = "recv"
  /\ ~stop_event
  /\ queue # <<>>
  /\ queue[Len(queue)] = "Stopping response..."
  /\ "enable_input" \in Range(queue)

(***************************************************************************)
(* Claims about the cursors of extract_speakable_segments                  *)
(***************************************************************************)
\* c_i: the start index for i = 0, the cursor of the i-th pair returned after
ReturnedCursor(i) == IF i = 0 THEN exStart ELSE exResult[i][2]

\* C37: the cursors returned by one call tile the text: they increase, and the
\* i-th segment is text[c_(i-1):c_i] without its leading and trailing
\* whitespace; so the segments, and after them the text from the last cursor,
\* hold the non-whitespace characters of the text from the start index, each
\* once and in order, and the same is true of the segments a caller gets that
\* calls again on the growing text from the last cursor returned.
C37_CursorsTileText ==
  /\ Extracted =>
       /\ \A i \in 1..Len(exResult) :
            /\ ReturnedCursor(i - 1) < ReturnedCursor(i)
            /\ exResult[i][1] =
                 strip(Slice(exText, ReturnedCursor(i - 1), ReturnedCursor(i)))
       /\ NonWhitespace(Join(Texts(exResult, Len(exResult))))
            \o NonWhitespace(Slice(exText, last_cursor(exResult, exStart), Len(exText)))
          = NonWhitespace(Slice(exText, exStart, Len(exText)))
  /\ AllArrived =>
       NonWhitespace(Join(Texts(exOut, Len(exOut))))
            \o NonWhitespace(Slice(exText, exCursor, Len(exText)))
          = NonWhitespace(Slice(exText, exStart, Len(exText)))

\* a line and a sentence: two segments, the second from the cursor of the first
C37_Witness ==
  /\ AllArrived
  /\ exText = <<"a", "\n", ".">>
  /\ exStart = 0
  /\ exResult = << <<(<<"a">>), 2>>, <<(<<".">>), 3>> >>

(***************************************************************************)
(* Claims about the audio of one request                                   *)
(***************************************************************************)
\* the requests and buffers on their way through the pipeline, place by place:
\* with the caller, on the text queue, with the generation worker, on the audio
\* queue, with the playback worker before it hands the buffer to the device,
\* and handed to the device
Pipeline ==
  (IF callReq # 0 THEN <<callReq>> ELSE <<>>)
    \o text_queue
    \o (IF genItem # 0 THEN <<genItem>> ELSE <<>>)
    \o SelectSeq(play_queue, LAMBDA item : item # playback_sentinel)
    \o (IF pbPc = "got" /\ pbItem # playback_sentinel THEN <<pbItem>> ELSE <<>>)
    \o played

\* no request, and no buffer, is at two places
AtOnePlace ==
  LET places == Pipeline IN Cardinality(Range(places)) = Len(places)

\* the audio queue gets longer
BufferIsPut == Len(play_queue') > Len(play_queue)

\* C38: the audio of a request is all or nothing: a buffer gets on the audio
\* queue only as the one merged buffer of the request the generation worker
\* holds, after its synthesis gave audio, and the worker lets go of it with
\* that put; a request, or its buffer, is never at two places of the pipeline,
\* so there is at most one put for it; and of a request whose synthesis raised
\* or gave no piece nothing is queued, played or held by the playback worker.
C38_AudioAllOrNothing ==
  /\ [][(BufferIsPut /\ play_queue'[Len(play_queue')] # playback_sentinel) =>
         /\ genPc = "putTry" /\ synth[genItem] = "audio"
         /\ play_queue' = Append(play_queue, genItem)
         /\ genItem' = 0]_vars
  /\ [](AtOnePlace)
  /\ [](\A r \in Reqs : synth[r] \in {"raise", "empty"} =>
           (r \notin Range(play_queue) \cup Range(played) /\ pbItem # r))

\* synthesis of request 1 raised, that of request 2 gave no piece, and only
\* the buffer of request 3 was played
C38_Witness ==
  /\ synth = [r \in Reqs |-> IF r = 1 THEN "raise" ELSE IF r = 2 THEN "empty" ELSE "audio"]
  /\ played = <<3>>

(***************************************************************************)
(* Claims about the conversation log                                       *)
(***************************************************************************)
\* the thread of a fresh turn (no entry is continued) is past its first step
FreshCycleRuns == ThreadAlive /\ srPc # "begin" /\ continuation_entry = 0

\* stream_response leaves its try statement: by an exception from the stream,
\* or through the else clause
TryIsLeft == srPc \in {"recv", "else"} /\ srPc' = "finally"

\* the log without its last entry
AllButLast(msgs) == SubSeq(msgs, 1, Len(msgs) - 1)

EventsOf(kinds) == {i \in 1..Len(events) : events[i][1] \in kinds}

\* the texts of the assistant_chunk events, in order
ChunkTexts ==
  LET chunks == SelectSeq(events, LAMBDA event : event[1] = "assistant_chunk")
  IN  [i \in 1..Len(chunks) |-> chunks[i][2]]

\* C40: the events one response cycle puts on the queue, which process_queue
\* takes off and handles one by one in that order, come in order:
\* assistant_begin before every assistant_chunk, every assistant_chunk before
\* assistant_finalize, assistant_finalize before enable_input and before
\* streaming_state False, neither of which comes without it; and the buffer
\* given to assistant_finalize is the text of the entry that is continued, if
\* any, followed by the texts of the assistant_chunk events.
C40_DisplayEventsInOrder ==
  /\ \A c \in EventsOf({"assistant_chunk"}) :
       \E b \in EventsOf({"assistant_begin"}) : b < c
  /\ \A f \in EventsOf({"assistant_finalize"}) :
       /\ \A c \in EventsOf({"assistant_chunk"}) : c < f
       /\ \E b \in EventsOf({"assistant_begin"}) :
            events[f][2] = events[b][2] \o Join(ChunkTexts)
  /\ \A e \in EventsOf({"enable_input", "streaming_state_off"}) :
       \E f \in EventsOf({"assistant_finalize"}) : f < e

\* a continued reply came in two chunks; the cycle has put all its events
C40_Witness ==
  /\ srPc = "exit"
  /\ continuation_entry # 0
  /\ Len(events) = 7
  /\ Cardinality(EventsOf({"assistant_chunk"})) = 2
  /\ events[7][1] = "streaming_state_off"

====
